---- MODULE Spec2Model ----
(***************************************************************************)
(* Model of the x402 payment job orchestration of the PasaTanda payment    *)
(* backend: X402JobQueueService (promise-chain queue), X402PaymentService  *)
(* (job table, order index, state machine, expiration timers, sweep) and   *)
(* the X402Controller handlers that touch jobs (crypto and fiat proofs).   *)
(*                                                                         *)
(* Time is counted in half hours.  The payment timeout is the value        *)
(* configured as X402_PAYMENT_TIMEOUT_SECONDS, here 3600, two units, as is *)
(* the retention window of cleanupExpiredJobs (3 600 000 ms).  Every time  *)
(* comparison of the program is between Date.now() and the expiresAt of    *)
(* one job, so the clock is kept per job as its age, Date.now() minus      *)
(* createdAt; the clock is read every TickMs units, and a job stops aging  *)
(* once it is old enough to be swept.                                      *)
(*                                                                         *)
(* A call that returns without suspending is a function of the state: its  *)
(* result and its writes are the fields of its ...Outcome operator.  `ret` *)
(* holds the value a suspended call resolved with in the step just taken.  *)
(*                                                                         *)
(* Spec follows one job through everything that can happen to it: two      *)
(* crypto proofs, fiat proofs, confirmation, the timer and the sweep.      *)
(* OrderSpec follows the job table and the order index over several jobs:  *)
(* creation, reuse, proofs, the timer and the sweep.  QSpec is the queue   *)
(* alone, with tasks that return or throw.                                 *)
(*                                                                         *)
(* A promise that has settled is not kept: a finished task leaves `tasks`, *)
(* and a tail whose run has settled is the resolved promise 0.             *)
(***************************************************************************)
EXTENDS Integers, Sequences, FiniteSets, TLC

\* ---------------------------------------------------------------- bounds
MaxJobs == 1          \* Spec: job objects ever created
MaxTasks == 2         \* Spec: crypto proofs ever accepted (enqueue calls)
MaxFiat == 1          \* Spec: fiat proofs being handled at the same time
MaxOrderJobs == 2     \* OrderSpec: job objects ever created
MaxOrderTasks == 1    \* OrderSpec: crypto proofs ever accepted
MaxPairJobs == 2      \* PairSpec: job objects ever created
MaxPairTasks == 2     \* PairSpec: crypto proofs ever accepted
MaxQTasks == 3        \* QSpec: tasks ever enqueued
TickMs == 3           \* time between two readings of the clock

\* ------------------------------------------------------ program constants
paymentTimeoutMs == 2     \* X402_PAYMENT_TIMEOUT_SECONDS * 1000 = one hour
RetentionMs == 2          \* 3600000 ms = one hour
AtomicPerUsd == 10000000  \* 10_000_000 stroops per unit
\* the doubles of the model are multiples of 2^-26; from 2^29 on, where a
\* double is a multiple of 2^-23, their steps are multiples of 8
UsdStepsPerUnit == 67108864

\* ------------------------------------------------------------ input sets
OrderIds == {1, 2}
\* A number is the double [units, steps]: units + steps / UsdStepsPerUnit.
Usd(units, steps) == [units |-> units, steps |-> steps]
\* the (amountUsd, payTo, requiresManualConfirmation) of createPaymentJob calls
Terms ==
  {<<Usd(1, 0), "GA", TRUE>>, <<Usd(2, 0), "GA", FALSE>>,
   <<Usd(1, 0), "none", FALSE>>}
ConfigPayTo == "none"     \* X402_PAY_TO_ADDRESS is not configured
\* the confirmedBy argument of confirmPayment ("none": not given)
ConfirmedBys == {"none", "agent"}

VARIABLES
  jobs,           \* keys of the Map `jobs` (each key maps to jobObjects[key])
  jobObjects,     \* every X402PaymentJob object ever created, by jobId
  jobsByOrderId,  \* the Map orderId -> jobId
  creating,       \* createPaymentJob calls awaiting sendPaymentRequired
  timers,         \* jobIds with an armed setTimeout
  tail,           \* X402JobQueueService.tail: the promise enqueue chains on
  queueDepth,     \* X402JobQueueService.queueDepth
  enqueued,       \* number of enqueue calls so far
  tasks,          \* the enqueued tasks that have not ended, in enqueue order
  fiat,           \* handleFiatPayment invocations waiting for the bank
  ret,            \* value a suspended call resolved with in this step
  call,           \* a call of a function of types / the facilitator, and
                  \* its result once it returned
  sent            \* the calls this step made to the collaborators: the
                  \* notifications handed to X402WebhookService and the
                  \* depositFor calls of SorobanService

vars == <<jobs, jobObjects, jobsByOrderId, creating, timers,
          tail, queueDepth, enqueued, tasks, fiat, ret, call, sent>>

jobVars == <<jobs, jobObjects, jobsByOrderId, creating, timers, fiat, call,
             sent>>
queueVars == <<tail, queueDepth, enqueued, tasks>>

NoRet == [op |-> "none"]
NoCall == [op |-> "none"]

\* ================================================================ queue
\* the ids of the tasks that have not ended
Pending == {tasks[i].id : i \in 1..Len(tasks)}

\* A promise a task is chained on is the id of the run it waits for while
\* that run is pending, Resolved once it has fulfilled (as Promise.resolve(),
\* the first tail) and Rejected once it has rejected.
Resolved == 0
Rejected == 0 - 1

\* this.tail = run.then(() => undefined, () => undefined): what the tail
\* of a run settles to when the run fulfilled (ok) or rejected
TailAfter_NoCatch(ok) == IF ok THEN Resolved ELSE Rejected
TailAfter(ok) == Resolved

\* this.tail.then(async () => ...): the callback runs once the promise it
\* is chained on has fulfilled
Fulfilled_Any(promise) == TRUE
Fulfilled(promise) == promise = Resolved

\* this.tail = ...: the tail after enqueue chained run t on oldTail
NewTail_Stale(oldTail, t) == oldTail
NewTail(oldTail, t) == t

\* try { return await task() } finally { ... }: the run settles as the task
RunOutcome(outcome) == outcome

\* enqueue(task): queueDepth++, chain the run on the tail, move the tail
Enqueue(task) ==
  /\ queueDepth' = queueDepth + 1
  /\ enqueued' = enqueued + 1
  /\ tasks' = Append(tasks, [task EXCEPT !.id = enqueued + 1, !.waitsOn = tail])
  /\ tail' = NewTail(tail, enqueued + 1)

\* the then-callback of the run: the task may start
CanStart_Unchained(i) == i \in 1..Len(tasks) /\ tasks[i].pc = "waiting"
CanStart(i) ==
  /\ i \in 1..Len(tasks)
  /\ tasks[i].pc = "waiting"
  /\ Fulfilled(tasks[i].waitsOn)

Remove(seq, i) == SubSeq(seq, 1, i - 1) \o SubSeq(seq, i + 1, Len(seq))

\* finally { this.queueDepth-- }: runs whether the task returned or threw
Finally_OnSuccess(depth, ok) == IF ok THEN depth - 1 ELSE depth
Finally(depth, ok) == depth - 1

\* the promises chained on run t once it has settled to `settled`
Settle(promise, t, settled) == IF promise = t THEN settled ELSE promise

\* the task at position i ended with `outcome`: finally { queueDepth-- },
\* the run settles, the caller of enqueue gets its outcome, and what was
\* chained on the run sees its tail settle
EndTask(i, outcome) ==
  LET t == tasks[i].id
      settled == TailAfter(RunOutcome(outcome).ok) IN
  /\ queueDepth' = Finally(queueDepth, RunOutcome(outcome).ok)
  /\ tasks' = Remove([k \in DOMAIN tasks |->
                        [tasks[k] EXCEPT !.waitsOn = Settle(@, t, settled)]], i)
  /\ tail' = Settle(tail, t, settled)
  /\ enqueued' = enqueued
  /\ ret' = [op |-> "enqueue", task |-> t, jobId |-> tasks[i].jobId,
             fulfilled |-> RunOutcome(outcome).ok,
             value |-> RunOutcome(outcome).val]

getQueueDepth == queueDepth
isIdle == queueDepth = 0

Running(i) == tasks[i].pc # "waiting"

\* ------------------------------------------- the queue under any clients
GenericTask(ok, val) ==
  [kind |-> "generic", id |-> 0, waitsOn |-> Resolved, pc |-> "waiting", jobId |-> 0,
   payload |-> 0, job |-> 0, error |-> "none",
   behaviour |-> [ok |-> ok, val |-> [op |-> val]]]

QInit ==
  /\ jobs = {} /\ jobObjects = <<>> /\ jobsByOrderId = <<>>
  /\ creating = {} /\ timers = {} /\ fiat = <<>> /\ ret = NoRet
  /\ call = NoCall /\ sent = <<>>
  /\ tail = Resolved /\ queueDepth = 0 /\ enqueued = 0 /\ tasks = <<>>

\* a caller enqueues a task that will return val (ok) or throw val (~ok)
QEnqueue(ok, val) ==
  /\ enqueued < MaxQTasks
  /\ Enqueue(GenericTask(ok, val))
  /\ ret' = NoRet
  /\ UNCHANGED jobVars

QTaskStart(i) ==
  /\ CanStart(i)
  /\ tasks[i].kind = "generic"
  /\ tasks' = [tasks EXCEPT ![i].pc = "running"]
  /\ ret' = NoRet
  /\ UNCHANGED <<tail, queueDepth, enqueued>>
  /\ UNCHANGED jobVars

QTaskEnd(i) ==
  /\ i \in 1..Len(tasks)
  /\ tasks[i].kind = "generic"
  /\ tasks[i].pc = "running"
  /\ EndTask(i, tasks[i].behaviour)
  /\ UNCHANGED jobVars

QNext ==
  \/ \E ok \in BOOLEAN, val \in {"a", "b"} : QEnqueue(ok, val)
  \/ \E i \in DOMAIN tasks : QTaskStart(i)
  \/ \E i \in DOMAIN tasks : QTaskEnd(i)

QSpec == QInit /\ [][QNext]_vars

\* The event loop runs every ready callback and every task of this
\* specification ends, so starts and ends are weakly fair.
QFairSpec ==
  /\ QSpec
  /\ \A i \in 1..MaxQTasks : WF_vars(QTaskStart(i)) /\ WF_vars(QTaskEnd(i))

\* ===================================================== job table helpers
NoVerify ==
  [recorded |-> FALSE, isValid |-> FALSE, invalidReason |-> "none", payer |-> 0]
NoSettle ==
  [recorded |-> FALSE, success |-> FALSE, errorReason |-> "none",
   transaction |-> 0, payer |-> 0]

\* what facilitator.verify returns for payload p (payer = payload.sourceAccount;
\* "none": undefined)
VerifyResponse(valid, p) ==
  [recorded |-> TRUE, isValid |-> valid,
   invalidReason |-> IF valid THEN "none" ELSE "Insufficient payment amount",
   payer |-> IF valid THEN p ELSE 0]

\* what facilitator.settle returns for payload p (transaction = result.hash)
SettleResponse(success, p) ==
  [recorded |-> TRUE, success |-> success,
   errorReason |-> IF success THEN "none" ELSE "Transaction submission failed",
   transaction |-> IF success THEN p ELSE 0, payer |-> p]

\* reason || fallback
OrElse_Fallback(reason, fallback) == fallback
OrElse(reason, fallback) == IF reason \in {"none", ""} THEN fallback ELSE reason

\* usdAmount * 10_000_000 in double arithmetic, as [hi, lo, rest]:
\* hi * 10^7 + lo + rest / UsdStepsPerUnit.  The product of a whole amount
\* and the product of an amount below one unit are exact; the product of an
\* amount from 2^29 units on lies in [2^52, 2^53), where the doubles are the
\* integers, and is the integer nearest to the exact product (ties to even).
TimesAtomicPerUsd(usdAmount) ==
  LET q == (usdAmount.steps * AtomicPerUsd) \div UsdStepsPerUnit
      r == (usdAmount.steps * AtomicPerUsd) % UsdStepsPerUnit IN
  IF usdAmount.units < 2^29
  THEN [hi |-> usdAmount.units, lo |-> q, rest |-> r]
  ELSE [hi |-> usdAmount.units,
        lo |-> IF 2 * r > UsdStepsPerUnit
                  \/ (2 * r = UsdStepsPerUnit /\ q % 2 = 1)
               THEN q + 1 ELSE q,
        rest |-> 0]

\* usdToAtomic: BigInt(Math.floor(usdAmount * 10_000_000)).toString(), the
\* integer [hi, lo] = hi * 10^7 + lo
usdToAtomic(usdAmount) ==
  LET product == TimesAtomicPerUsd(usdAmount) IN
  [hi |-> product.hi, lo |-> product.lo]

\* the first reading of the clock at which a job is past its retention
AgeCap == ((paymentTimeoutMs + RetentionMs) \div TickMs + 1) * TickMs

\* new Date() > job.expiresAt
PastExpiry_Late(job) == job.age > paymentTimeoutMs + RetentionMs
PastExpiry(job) == job.age > paymentTimeoutMs
\* job.expiresAt.getTime() - Date.now() > 0, the test that arms the timer
BeforeExpiry(job) == job.age < paymentTimeoutMs
\* the delay of the setTimeout has elapsed
TimerDue(job) == job.age >= paymentTimeoutMs
\* job.expiresAt.getTime() < now - 3600000
PastRetention(job) == job.age > paymentTimeoutMs + RetentionMs

\* the test of createPaymentJob on the existing job of the order
IsLive_OnlyRequired(status) == status = "payment_required"
IsLive(status) == status \notin {"failed", "expired", "completed"}

\* the jobId createPaymentJob returns instead of creating a job, 0 if none
ExistingLiveJob(orderId) ==
  IF orderId \in DOMAIN jobsByOrderId
  THEN LET existingJobId == jobsByOrderId[orderId] IN
       IF existingJobId \in jobs /\ IsLive(jobObjects[existingJobId].status)
       THEN existingJobId ELSE 0
  ELSE 0

\* getJobByOrderId(orderId), 0 for undefined
getJobByOrderId(orderId) ==
  IF orderId \in DOMAIN jobsByOrderId /\ jobsByOrderId[orderId] \in jobs
  THEN jobsByOrderId[orderId] ELSE 0

\* updateJobStatus(jobId, status, errorMessage) applied to the objects objs
\* ("none": no errorMessage is given)
UpdateJobStatus(objs, jobId, status, errorMessage) ==
  IF jobId \in jobs
  THEN [objs EXCEPT ![jobId].status = status,
                    ![jobId].errorMessage = IF errorMessage # "none"
                                            THEN errorMessage ELSE @]
  ELSE objs

\* the result object of processPayment / verifyAndSettle
Result(success, status, error, settle, manual) ==
  [op |-> "processPayment", success |-> success, status |-> status,
   error |-> error, txHash |-> settle.transaction, payer |-> settle.payer,
   requiresManualConfirmation |-> manual]

\* the task processPayment enqueues: () => this.verifyAndSettle(jobId, payload)
VerifyAndSettleTask(jobId, payload) ==
  [kind |-> "verifyAndSettle", id |-> 0, waitsOn |-> Resolved,
   pc |-> "waiting",
   jobId |-> jobId, payload |-> payload, job |-> 0, error |-> "none",
   behaviour |-> [ok |-> TRUE, val |-> NoRet]]

\* the job object built by createPaymentJob
NewJob(orderId, amountUsd, payToAddress, requiresManualConfirmation) ==
  [orderId |-> orderId,
   amountUsd |-> amountUsd,
   amountAtomic |-> usdToAtomic(amountUsd),
   status |-> "payment_required",
   paymentRequirements |-> [maxAmountRequired |-> usdToAtomic(amountUsd),
                            payTo |-> payToAddress],
   errorMessage |-> "none",
   paymentPayload |-> 0, paymentMethod |-> "none",
   verifyResponse |-> NoVerify, settleResponse |-> NoSettle,
   age |-> 0,
   requiresManualConfirmation |-> requiresManualConfirmation,
   manuallyConfirmed |-> FALSE,
   \* confirmedAt (as the age of the job then, below 0: undefined) and
   \* confirmedBy ("none": undefined)
   confirmedAt |-> 0 - 1, confirmedBy |-> "none"]

Init ==
  /\ jobs = {} /\ jobObjects = <<>> /\ jobsByOrderId = <<>>
  /\ creating = {} /\ timers = {} /\ fiat = <<>> /\ ret = NoRet
  /\ call = NoCall /\ sent = <<>>
  /\ tail = Resolved /\ queueDepth = 0 /\ enqueued = 0 /\ tasks = <<>>

\* an X-PAYMENT header: not decodable, a fiat payload, or crypto payload p
CryptoHeader(p) == [type |-> "crypto", payload |-> p]

\* every X-PAYMENT crypto payload carries its own nonce: the header of a
\* proof that would be the n-th one accepted carries payload n
NextPayload == enqueued + 1

\* the headers processPayment can be called with
Headers ==
  {[type |-> "undecodable", payload |-> 0], [type |-> "fiat", payload |-> 0],
   CryptoHeader(NextPayload)}

\* the requests pay can be sent: no proof, a fiat proof, or a crypto proof
Continuations ==
  {[kind |-> "return", payload |-> 0], [kind |-> "fiat", payload |-> 0],
   [kind |-> "crypto", payload |-> NextPayload]}

\* ========================================================= processPayment
\* job.paymentMethod && job.paymentMethod !== 'crypto'
CryptoConflict_Never(job) == FALSE
CryptoConflict(job) == job.paymentMethod # "none" /\ job.paymentMethod # "crypto"

\* job.status === 'completed' || 'settled' || 'verified': already processed
AlreadyProcessed_OnlyCompleted(status) == status = "completed"
AlreadyProcessed(status) == status \in {"completed", "settled", "verified"}

\* processPayment(jobId, xPaymentHeader) up to its only await: the new job
\* objects, whether verifyAndSettle is enqueued, and the value returned
\* when it is not
ProcessPaymentOutcome(jobId, header) ==
  LET job == jobObjects[jobId] IN
  IF jobId \notin jobs
  THEN [objs |-> jobObjects, enqueue |-> FALSE,
        ret |-> Result(FALSE, "failed", "Payment job not found", NoSettle, FALSE)]
  ELSE IF PastExpiry(job)
  THEN [objs |-> UpdateJobStatus(jobObjects, jobId, "expired",
                                 "Payment window expired"),
        enqueue |-> FALSE,
        ret |-> Result(FALSE, "expired", "Payment window expired", NoSettle, FALSE)]
  ELSE IF AlreadyProcessed(job.status)
  THEN [objs |-> jobObjects, enqueue |-> FALSE,
        ret |-> Result(TRUE, job.status, "none", job.settleResponse,
                       job.requiresManualConfirmation)]
  ELSE IF CryptoConflict(job)
  THEN [objs |-> jobObjects, enqueue |-> FALSE,
        ret |-> Result(FALSE, "failed",
                       "Payment method already locked to fiat for this order",
                       NoSettle, FALSE)]
  ELSE IF header.type = "undecodable"
  THEN [objs |-> UpdateJobStatus(jobObjects, jobId, "failed",
                                 "Invalid payment payload"),
        enqueue |-> FALSE,
        ret |-> Result(FALSE, "failed", "Invalid payment payload", NoSettle, FALSE)]
  ELSE IF header.type = "fiat"
  THEN [objs |-> UpdateJobStatus(jobObjects, jobId, "failed",
                                 "Fiat payload not supported on crypto processor"),
        enqueue |-> FALSE,
        ret |-> Result(FALSE, "failed",
                       "Fiat payload not supported on crypto processor",
                       NoSettle, FALSE)]
  ELSE [objs |-> UpdateJobStatus(
                   [jobObjects EXCEPT ![jobId].paymentPayload = header.payload,
                                      ![jobId].paymentMethod = "crypto"],
                   jobId, "payment_received", "none"),
        enqueue |-> TRUE, ret |-> NoRet]

\* processPayment(jobId, xPaymentHeader) up to its await
ProcessPaymentBody(jobId, header) ==
  LET out == ProcessPaymentOutcome(jobId, header) IN
  /\ jobObjects' = out.objs
  /\ ret' = NoRet
  /\ IF out.enqueue
     THEN Enqueue(VerifyAndSettleTask(jobId, header.payload))
     ELSE UNCHANGED queueVars

\* processPayment called on any job id (processAndRegisterPayment, embedder)
ProcessPayment(jobId, header) ==
  /\ ProcessPaymentBody(jobId, header)
  /\ sent' = <<>>
  /\ UNCHANGED <<jobs, jobsByOrderId, creating, timers, fiat, call>>

\* ====================================================== handleFiatPayment
FiatResponse(jobId, success, error) ==
  [op |-> "handleFiatPayment", jobId |-> jobId, success |-> success,
   error |-> error]

\* job?.paymentMethod && job.paymentMethod !== 'fiat' (job 0: undefined)
FiatConflict(job) ==
  job # 0 /\ jobObjects[job].paymentMethod # "none"
          /\ jobObjects[job].paymentMethod # "fiat"

\* handleFiatPayment up to its first await: a job locked to crypto is
\* answered with a conflict, otherwise the bank verification is started
\* and the handler waits for it holding the job it read
HandleFiatPaymentOutcome(jobId) ==
  LET job == IF jobId \in jobs THEN jobId ELSE 0 IN
  IF FiatConflict(job)
  THEN [conflict |-> TRUE, fiat |-> fiat,
        ret |-> FiatResponse(jobId, FALSE, "Payment method already locked to crypto")]
  ELSE [conflict |-> FALSE, fiat |-> Append(fiat, [jobId |-> jobId, job |-> job]),
        ret |-> NoRet]

HandleFiatPayment(jobId) ==
  /\ fiat' = HandleFiatPaymentOutcome(jobId).fiat
  /\ ret' = NoRet

\* verifyPaymentInline returned: the handler writes through the reference
\* to the job it read before the await
FiatVerifyReturn(f, verified) ==
  /\ f \in 1..Len(fiat)
  /\ LET job == fiat[f].job IN
     /\ jobObjects' =
          IF job = 0 THEN jobObjects
          ELSE IF verified
          THEN [jobObjects EXCEPT ![job].paymentMethod = "fiat",
                                  ![job].status = "completed"]
          ELSE [jobObjects EXCEPT ![job].paymentMethod = "fiat",
                                  ![job].errorMessage =
                                     "Fiat payment could not be verified"]
     /\ fiat' = Remove(fiat, f)
     /\ ret' = FiatResponse(fiat[f].jobId, verified,
                            IF verified THEN "none"
                            ELSE "Fiat payment could not be verified")
  /\ sent' = <<>>
  /\ UNCHANGED <<jobs, jobsByOrderId, creating, timers, call>>
  /\ UNCHANGED queueVars

\* handleCryptoPayment: the status of the response to a proof whose
\* processPayment call returned `result`
CryptoHttpStatus(result) ==
  IF ~result.success /\ result.status = "failed"
  THEN "PAYMENT_REQUIRED" ELSE "OK"

\* buildAccepts(dto, resource, paymentRequirements, jobId): the types of
\* the options of the Payment Required response, in their order
\* (fiatAccept: whether tryFiatAccept returned a QR option)
BuildAccepts(jobId, fiatAccept) ==
  LET lockedMethod == IF jobId \in jobs THEN jobObjects[jobId].paymentMethod
                      ELSE "none" IN
  (IF lockedMethod # "fiat" THEN <<"crypto">> ELSE <<>>)
    \o (IF lockedMethod # "crypto" /\ fiatAccept THEN <<"fiat">> ELSE <<>>)

\* the rest of X402Controller.pay once createPaymentJob returned jobId
Continue(jobId, cont) ==
  CASE cont.kind = "return" ->
         ret' = NoRet /\ UNCHANGED <<jobObjects, fiat>> /\ UNCHANGED queueVars
    [] cont.kind = "crypto" ->
         ProcessPaymentBody(jobId, CryptoHeader(cont.payload)) /\ UNCHANGED fiat
    [] cont.kind = "fiat" ->
         HandleFiatPayment(jobId) /\ UNCHANGED jobObjects /\ UNCHANGED queueVars

\* ===================================================== X402WebhookService
\* how a dispatch ends: OPTUSBMS_BACKEND_URL is not configured and the
\* notification is skipped, axios.post resolved, or axios.post rejected
DispatchOutcomes == {"skipped", "delivered", "failed"}

\* dispatch(type, job, data): whether the promise of the send method
\* rejects (the error of axios.post is caught and logged)
Dispatch_Rethrow(outcome) == [threw |-> outcome = "failed"]
Dispatch(outcome) == [threw |-> FALSE]

\* the payload of the notification of `type` for the job object `job` of
\* objs: type, orderId, jobId and data.status
Notification(type, objs, job) ==
  [type |-> type, jobId |-> job, orderId |-> objs[job].orderId,
   status |-> objs[job].status]

\* ======================================================= createPaymentJob
CreateReturnValue(threw, jobId, paymentRequirements) ==
  [op |-> "createPaymentJob", threw |-> threw, jobId |-> jobId,
   paymentRequirements |-> paymentRequirements]

\* if (!payToAddress) throw new Error(...)
MissingPayee_Never(payToAddress) == FALSE
MissingPayee(payToAddress) == payToAddress = "none"

\* createPaymentJob up to its await: the tables it leaves and, when it does
\* not suspend, what it returns or that it threw
CreatePaymentJobOutcome(orderId, amountUsd, payTo, manual) ==
  LET existingJobId == ExistingLiveJob(orderId)
      payToAddress == IF payTo # "none" THEN payTo ELSE ConfigPayTo
      jobId == Len(jobObjects) + 1
  IN
  IF existingJobId # 0
  THEN [created |-> 0, jobs |-> jobs, objs |-> jobObjects,
        byOrder |-> jobsByOrderId,
        ret |-> CreateReturnValue(FALSE, existingJobId,
                                  jobObjects[existingJobId].paymentRequirements)]
  ELSE IF MissingPayee(payToAddress)
  THEN [created |-> 0, jobs |-> jobs, objs |-> jobObjects,
        byOrder |-> jobsByOrderId,
        ret |-> CreateReturnValue(TRUE, 0, [maxAmountRequired |-> 0,
                                            payTo |-> "none"])]
  ELSE [created |-> jobId, jobs |-> jobs \cup {jobId},
        objs |-> Append(jobObjects,
                        NewJob(orderId, amountUsd, payToAddress, manual)),
        byOrder |-> (orderId :> jobId) @@ jobsByOrderId,
        ret |-> NoRet]

\* X402Controller.pay (or a direct createPaymentJob call when cont is
\* "return"): createPaymentJob and, when it returns at once, what pay does
\* with the proof of the request
CreatePaymentJob(orderId, amountUsd, payTo, manual, cont) ==
  LET out == CreatePaymentJobOutcome(orderId, amountUsd, payTo, manual) IN
  /\ jobs' = out.jobs
  /\ jobsByOrderId' = out.byOrder
  /\ UNCHANGED <<timers, call>>
  /\ IF out.created # 0
     THEN /\ jobObjects' = out.objs
          /\ creating' = creating \cup {out.created}
          /\ sent' = <<Notification("X402_PAYMENT_REQUIRED", out.objs,
                                    out.created)>>
          /\ ret' = NoRet
          /\ UNCHANGED fiat
          /\ UNCHANGED queueVars
     ELSE IF out.ret.threw
     THEN /\ ret' = NoRet
          /\ sent' = <<>>
          /\ UNCHANGED <<jobObjects, creating, fiat>>
          /\ UNCHANGED queueVars
     ELSE /\ Continue(out.ret.jobId, cont)
          /\ sent' = <<>>
          /\ UNCHANGED creating

\* sendPaymentRequired returned (its dispatch ended with `outcome`):
\* scheduleExpirationCheck, return, and the caller goes on (cont: what the
\* pay request that created the job carries)
CreateReturn(jobId, cont, outcome) ==
  /\ jobId \in creating
  /\ creating' = creating \ {jobId}
  /\ sent' = <<>>
  /\ IF Dispatch(outcome).threw
     THEN /\ ret' = NoRet
          /\ UNCHANGED <<jobObjects, timers, fiat>>
          /\ UNCHANGED queueVars
     ELSE /\ timers' = IF jobId \in jobs /\ BeforeExpiry(jobObjects[jobId])
                       THEN timers \cup {jobId} ELSE timers
          /\ Continue(jobId, cont)
  /\ UNCHANGED <<jobs, jobsByOrderId, call>>

\* ========================================================= verifyAndSettle
IsTask(i, pc) ==
  /\ i \in 1..Len(tasks)
  /\ tasks[i].kind = "verifyAndSettle"
  /\ tasks[i].pc = pc

\* what a step of a task leaves alone besides the job objects
jobFrame == <<jobs, jobsByOrderId, creating, timers, fiat, call>>
stepFrame == <<tail, queueDepth, enqueued>>

\* the task runs: job lookup, then updateJobStatus(jobId, 'verifying') and
\* the call of facilitator.verify
TaskStart(i) ==
  /\ CanStart(i)
  /\ tasks[i].kind = "verifyAndSettle"
  /\ LET jobId == tasks[i].jobId IN
     IF jobId \notin jobs
     THEN /\ EndTask(i, [ok |-> TRUE,
                         val |-> Result(FALSE, "failed", "Payment job not found",
                                        NoSettle, FALSE)])
          /\ UNCHANGED jobObjects
     ELSE /\ jobObjects' = UpdateJobStatus(jobObjects, jobId, "verifying", "none")
          /\ tasks' = [tasks EXCEPT ![i].pc = "verify", ![i].job = jobId]
          /\ ret' = NoRet
          /\ UNCHANGED stepFrame
  /\ sent' = <<>>
  /\ UNCHANGED jobFrame

\* if (!verifyResult.isValid) { ... failed ... return }: whether the task
\* goes on to settle
VerifyPassed_Always(verifyResult) == TRUE
VerifyPassed(verifyResult) == verifyResult.isValid

\* facilitator.verify returned: job.verifyResponse is written through the
\* reference, then the status, and sendPaymentVerified or sendPaymentFailed
\* is called with the job
VerifyReturn(i, isValid) ==
  /\ IsTask(i, "verify")
  /\ LET t == tasks[i]
         verifyResult == VerifyResponse(isValid, t.payload)
         error == OrElse(verifyResult.invalidReason, "Verification failed")
         objs == [jobObjects EXCEPT ![t.job].verifyResponse = verifyResult]
         verified == UpdateJobStatus(objs, t.jobId, "verified", "none")
         failed == UpdateJobStatus(objs, t.jobId, "failed", error) IN
     IF VerifyPassed(verifyResult)
     THEN /\ jobObjects' = verified
          /\ sent' = <<Notification("X402_PAYMENT_VERIFIED", verified, t.job)>>
          /\ tasks' = [tasks EXCEPT ![i].pc = "verifiedSent"]
     ELSE /\ jobObjects' = failed
          /\ sent' = <<Notification("X402_PAYMENT_FAILED", failed, t.job)>>
          /\ tasks' = [tasks EXCEPT ![i].pc = "verifyFailedSent",
                                    ![i].error = error]
  /\ ret' = NoRet
  /\ UNCHANGED stepFrame
  /\ UNCHANGED jobFrame

\* a send method of the webhook rejected: so does verifyAndSettle
WebhookThrew(i) ==
  /\ EndTask(i, [ok |-> FALSE, val |-> [op |-> "error"]])
  /\ UNCHANGED jobObjects

\* sendPaymentVerified returned: updateJobStatus(jobId, 'settling') and the
\* call of facilitator.settle
VerifiedSent(i, outcome) ==
  /\ IsTask(i, "verifiedSent")
  /\ IF Dispatch(outcome).threw
     THEN WebhookThrew(i)
     ELSE /\ jobObjects' = UpdateJobStatus(jobObjects, tasks[i].jobId,
                                           "settling", "none")
          /\ tasks' = [tasks EXCEPT ![i].pc = "settle"]
          /\ ret' = NoRet
          /\ UNCHANGED stepFrame
  /\ sent' = <<>>
  /\ UNCHANGED jobFrame

\* facilitator.settle returned: job.settleResponse, the status, and
\* sendPaymentSettled or sendPaymentFailed
SettleReturn(i, success) ==
  /\ IsTask(i, "settle")
  /\ LET t == tasks[i]
         settleResult == SettleResponse(success, t.payload)
         error == OrElse(settleResult.errorReason, "Settlement failed")
         objs == [jobObjects EXCEPT ![t.job].settleResponse = settleResult]
         settled == UpdateJobStatus(objs, t.jobId, "settled", "none")
         failed == UpdateJobStatus(objs, t.jobId, "failed", error) IN
     IF settleResult.success
     THEN /\ jobObjects' = settled
          /\ sent' = <<Notification("X402_PAYMENT_SETTLED", settled, t.job)>>
          /\ tasks' = [tasks EXCEPT ![i].pc = "settledSent"]
     ELSE /\ jobObjects' = failed
          /\ sent' = <<Notification("X402_PAYMENT_FAILED", failed, t.job)>>
          /\ tasks' = [tasks EXCEPT ![i].pc = "settleFailedSent",
                                    ![i].error = error]
  /\ ret' = NoRet
  /\ UNCHANGED stepFrame
  /\ UNCHANGED jobFrame

\* sendPaymentFailed returned: the failure result is returned
FailedSent(i, outcome) ==
  /\ \/ IsTask(i, "verifyFailedSent") \/ IsTask(i, "settleFailedSent")
  /\ IF Dispatch(outcome).threw
     THEN WebhookThrew(i)
     ELSE /\ EndTask(i, [ok |-> TRUE,
                         val |-> Result(FALSE, "failed", tasks[i].error,
                                        NoSettle, FALSE)])
          /\ UNCHANGED jobObjects
  /\ sent' = <<>>
  /\ UNCHANGED jobFrame

\* sendPaymentSettled returned: return settled when a manual confirmation
\* is required, else updateJobStatus(jobId, 'completed') and
\* sendPaymentConfirmed
SettledSent(i, outcome) ==
  /\ IsTask(i, "settledSent")
  /\ LET t == tasks[i]
         job == jobObjects[t.job]
         completed == UpdateJobStatus(jobObjects, t.jobId, "completed", "none") IN
     IF Dispatch(outcome).threw
     THEN WebhookThrew(i) /\ sent' = <<>>
     ELSE IF job.requiresManualConfirmation
     THEN /\ EndTask(i, [ok |-> TRUE,
                         val |-> Result(TRUE, "settled", "none",
                                        job.settleResponse, TRUE)])
          /\ sent' = <<>>
          /\ UNCHANGED jobObjects
     ELSE /\ jobObjects' = completed
          /\ sent' = <<Notification("X402_PAYMENT_CONFIRMED", completed, t.job)>>
          /\ tasks' = [tasks EXCEPT ![i].pc = "confirmedSent"]
          /\ ret' = NoRet
          /\ UNCHANGED stepFrame
  /\ UNCHANGED jobFrame

\* sendPaymentConfirmed returned: the completed result is returned
ConfirmedSent(i, outcome) ==
  /\ IsTask(i, "confirmedSent")
  /\ IF Dispatch(outcome).threw
     THEN WebhookThrew(i)
     ELSE /\ EndTask(i, [ok |-> TRUE,
                         val |-> Result(TRUE, "completed", "none",
                                        jobObjects[tasks[i].job].settleResponse,
                                        FALSE)])
          /\ UNCHANGED jobObjects
  /\ sent' = <<>>
  /\ UNCHANGED jobFrame

\* ================================================ confirm, timer, cleanup
ConfirmResult(success, status, error) ==
  [op |-> "confirmPayment", success |-> success, status |-> status,
   error |-> error]

\* job.status !== 'settled' is the test that refuses the confirmation
Confirmable_Any(status) == TRUE
Confirmable(status) == status = "settled"

\* confirmPayment(jobId, confirmedBy): the job objects it leaves and what
\* it returns
ConfirmPaymentOutcome(jobId, confirmedBy) ==
  IF jobId \notin jobs
  THEN [objs |-> jobObjects,
        ret |-> ConfirmResult(FALSE, "failed", "Payment job not found")]
  ELSE IF ~Confirmable(jobObjects[jobId].status)
  THEN [objs |-> jobObjects,
        ret |-> ConfirmResult(FALSE, jobObjects[jobId].status,
                              "Cannot confirm payment in this status")]
  ELSE [objs |-> UpdateJobStatus(
                   [jobObjects EXCEPT ![jobId].manuallyConfirmed = TRUE,
                                      ![jobId].confirmedAt = jobObjects[jobId].age,
                                      ![jobId].confirmedBy = confirmedBy],
                   jobId, "completed", "none"),
        ret |-> ConfirmResult(TRUE, "completed", "none")]

\* confirmPayment(jobId, confirmedBy), with the sendPaymentConfirmed call
\* that follows the confirmation
ConfirmPayment(jobId, confirmedBy) ==
  LET out == ConfirmPaymentOutcome(jobId, confirmedBy) IN
  /\ jobObjects' = out.objs
  /\ sent' = IF out.ret.success
             THEN <<Notification("X402_PAYMENT_CONFIRMED", out.objs, jobId)>>
             ELSE <<>>
  /\ ret' = NoRet
  /\ UNCHANGED <<jobs, jobsByOrderId, creating, timers, fiat, call>>
  /\ UNCHANGED queueVars

\* currentJob.status === 'payment_required', the test of the timer
StillRequired_Open(status) == status \notin {"failed", "expired", "completed"}
StillRequired(status) == status = "payment_required"

\* the callback scheduleExpirationCheck passed to setTimeout: the job
\* objects it leaves and the notification it sends
ExpirationOutcome(jobId) ==
  LET expired == UpdateJobStatus(jobObjects, jobId, "expired",
                                 "Payment window expired") IN
  IF jobId \in jobs /\ StillRequired(jobObjects[jobId].status)
  THEN [objs |-> expired,
        sent |-> <<Notification("X402_PAYMENT_EXPIRED", expired, jobId)>>]
  ELSE [objs |-> jobObjects, sent |-> <<>>]

ExpirationTimer(jobId) ==
  /\ jobId \in timers
  /\ TimerDue(jobObjects[jobId])
  /\ timers' = timers \ {jobId}
  /\ jobObjects' = ExpirationOutcome(jobId).objs
  /\ sent' = ExpirationOutcome(jobId).sent
  /\ ret' = NoRet
  /\ UNCHANGED <<jobs, jobsByOrderId, creating, fiat, call>>
  /\ UNCHANGED queueVars

\* job.status === 'expired' || job.status === 'failed'
Sweepable_Ended(status) == status \in {"expired", "failed", "completed"}
Sweepable(status) == status \in {"expired", "failed"}

\* the jobs cleanupExpiredJobs deletes
Cleanable ==
  {jobId \in jobs : /\ PastRetention(jobObjects[jobId])
                    /\ Sweepable(jobObjects[jobId].status)}

\* cleanupExpiredJobs(): the tables it leaves and the count it returns
CleanupOutcome ==
  [jobs |-> jobs \ Cleanable,
   byOrder |-> [o \in DOMAIN jobsByOrderId \
                        {jobObjects[j].orderId : j \in Cleanable}
                  |-> jobsByOrderId[o]],
   cleaned |-> Cardinality(Cleanable)]

cleanupExpiredJobs ==
  /\ jobs' = CleanupOutcome.jobs
  /\ jobsByOrderId' = CleanupOutcome.byOrder
  /\ ret' = NoRet
  /\ sent' = <<>>
  /\ UNCHANGED <<jobObjects, creating, timers, fiat, call>>
  /\ UNCHANGED queueVars

\* time passes: every job is one unit older
Tick ==
  /\ \E j \in DOMAIN jobObjects : jobObjects[j].age < AgeCap
  /\ jobObjects' = [j \in DOMAIN jobObjects |->
                      [jobObjects[j] EXCEPT !.age = IF @ < AgeCap THEN @ + TickMs
                                                    ELSE @]]
  /\ ret' = NoRet
  /\ sent' = <<>>
  /\ UNCHANGED <<jobs, jobsByOrderId, creating, timers, fiat, call>>
  /\ UNCHANGED queueVars

\* =========================== IntegratedPaymentService.registerPaymentOnChain
RegisterResult(success, error) ==
  [op |-> "registerPaymentOnChain", success |-> success, error |-> error]

\* job.status !== 'settled' && job.status !== 'completed' refuses the job
Registrable_Verified(status) == status \in {"verified", "settled", "completed"}
Registrable(status) == status \in {"settled", "completed"}

\* registerPaymentOnChain(jobId, groupAddress, memberAddress) up to its
\* await: the depositFor call it makes, with
\* BigInt(Math.floor(job.amountUsd * 10_000_000)) as amount, or what it
\* returns without calling the contract
RegisterPaymentOnChainOutcome(jobId) ==
  IF jobId \notin jobs
  THEN [sent |-> <<>>, ret |-> RegisterResult(FALSE, "Payment job not found")]
  ELSE IF ~Registrable(jobObjects[jobId].status)
  THEN [sent |-> <<>>, ret |-> RegisterResult(FALSE, "Payment job is not settled")]
  ELSE [sent |-> <<[type |-> "depositFor", jobId |-> jobId,
                    amountStroops |-> usdToAtomic(jobObjects[jobId].amountUsd)]>>,
        ret |-> NoRet]

\* registerPaymentOnChain; what depositFor returns is returned to the caller
RegisterPaymentOnChain(jobId) ==
  /\ sent' = RegisterPaymentOnChainOutcome(jobId).sent
  /\ ret' = NoRet
  /\ UNCHANGED <<jobs, jobObjects, jobsByOrderId, creating, timers, fiat, call>>
  /\ UNCHANGED queueVars

\* the ids a caller can name: the jobs ever created and one that never was
JobIds == 1..(Len(jobObjects) + 1)

\* the order ids a caller can name: order ids are numbered in the order of
\* their first use
CallableOrders ==
  {o \in OrderIds :
     o <= Cardinality({jobObjects[j].orderId : j \in DOMAIN jobObjects}) + 1}

\* the step stays within the given numbers of jobs, proofs and fiat proofs
Fits(maxJobs, maxTasks, maxFiat) ==
  /\ Len(jobObjects') <= maxJobs
  /\ enqueued' <= maxTasks
  /\ Len(fiat') <= maxFiat

Next ==
  \/ \E o \in CallableOrders, tm \in Terms, cont \in Continuations :
       CreatePaymentJob(o, tm[1], tm[2], tm[3], cont)
         /\ Fits(MaxJobs, MaxTasks, MaxFiat)
  \/ \E j \in creating, cont \in Continuations, outcome \in DispatchOutcomes :
       CreateReturn(j, cont, outcome) /\ Fits(MaxJobs, MaxTasks, MaxFiat)
  \/ \E j \in JobIds, h \in Headers :
       ProcessPayment(j, h) /\ Fits(MaxJobs, MaxTasks, MaxFiat)
  \/ \E f \in DOMAIN fiat, verified \in BOOLEAN : FiatVerifyReturn(f, verified)
  \/ \E i \in DOMAIN tasks : TaskStart(i)
  \/ \E i \in DOMAIN tasks, isValid \in BOOLEAN : VerifyReturn(i, isValid)
  \/ \E i \in DOMAIN tasks, outcome \in DispatchOutcomes : VerifiedSent(i, outcome)
  \/ \E i \in DOMAIN tasks, success \in BOOLEAN : SettleReturn(i, success)
  \/ \E i \in DOMAIN tasks, outcome \in DispatchOutcomes : FailedSent(i, outcome)
  \/ \E i \in DOMAIN tasks, outcome \in DispatchOutcomes : SettledSent(i, outcome)
  \/ \E i \in DOMAIN tasks, outcome \in DispatchOutcomes : ConfirmedSent(i, outcome)
  \/ \E j \in JobIds, confirmedBy \in ConfirmedBys :
       ConfirmPayment(j, confirmedBy)
  \/ \E j \in JobIds : RegisterPaymentOnChain(j)
  \/ \E j \in timers : ExpirationTimer(j)
  \/ cleanupExpiredJobs
  \/ Tick

Spec == Init /\ [][Next]_vars

\* the job table over several jobs: well-formed crypto proofs, no fiat
\* proofs, no confirmation
OrderNext ==
  \/ \E o \in CallableOrders, tm \in Terms, cont \in Continuations :
       CreatePaymentJob(o, tm[1], tm[2], tm[3], cont)
         /\ Fits(MaxOrderJobs, MaxOrderTasks, 0)
  \/ \E j \in creating, cont \in Continuations, outcome \in DispatchOutcomes :
       CreateReturn(j, cont, outcome) /\ Fits(MaxOrderJobs, MaxOrderTasks, 0)
  \/ \E j \in JobIds :
       ProcessPayment(j, CryptoHeader(NextPayload))
         /\ Fits(MaxOrderJobs, MaxOrderTasks, 0)
  \/ \E i \in DOMAIN tasks : TaskStart(i)
  \/ \E i \in DOMAIN tasks, isValid \in BOOLEAN : VerifyReturn(i, isValid)
  \/ \E i \in DOMAIN tasks, outcome \in DispatchOutcomes : VerifiedSent(i, outcome)
  \/ \E i \in DOMAIN tasks, success \in BOOLEAN : SettleReturn(i, success)
  \/ \E i \in DOMAIN tasks, outcome \in DispatchOutcomes : FailedSent(i, outcome)
  \/ \E i \in DOMAIN tasks, outcome \in DispatchOutcomes : SettledSent(i, outcome)
  \/ \E i \in DOMAIN tasks, outcome \in DispatchOutcomes : ConfirmedSent(i, outcome)
  \/ \E j \in timers : ExpirationTimer(j)
  \/ cleanupExpiredJobs
  \/ Tick

OrderSpec == Init /\ [][OrderNext]_vars

\* the proofs of two jobs in the queue: crypto proofs for jobs of the
\* table, while no time passes
PairNext ==
  \/ \E o \in CallableOrders, tm \in Terms,
        cont \in {c \in Continuations : c.kind # "fiat"} :
       CreatePaymentJob(o, tm[1], tm[2], tm[3], cont)
         /\ Fits(MaxPairJobs, MaxPairTasks, 0)
  \/ \E j \in creating, cont \in {c \in Continuations : c.kind # "fiat"},
        outcome \in DispatchOutcomes :
       CreateReturn(j, cont, outcome) /\ Fits(MaxPairJobs, MaxPairTasks, 0)
  \/ \E j \in jobs :
       ProcessPayment(j, CryptoHeader(NextPayload))
         /\ Fits(MaxPairJobs, MaxPairTasks, 0)
  \/ \E i \in DOMAIN tasks : TaskStart(i)
  \/ \E i \in DOMAIN tasks, isValid \in BOOLEAN : VerifyReturn(i, isValid)
  \/ \E i \in DOMAIN tasks, outcome \in DispatchOutcomes : VerifiedSent(i, outcome)
  \/ \E i \in DOMAIN tasks, success \in BOOLEAN : SettleReturn(i, success)
  \/ \E i \in DOMAIN tasks, outcome \in DispatchOutcomes : FailedSent(i, outcome)
  \/ \E i \in DOMAIN tasks, outcome \in DispatchOutcomes : SettledSent(i, outcome)
  \/ \E i \in DOMAIN tasks, outcome \in DispatchOutcomes : ConfirmedSent(i, outcome)

PairSpec == Init /\ [][PairNext]_vars

\* ============================================== X402FacilitatorService.verify
\* A decimal amount of the Stellar SDK, "units.fraction" with 7 digits of
\* fraction, is the record of its units and its fraction in stroops; a
\* BigInt of stroops is [hi, lo] = hi * 10^7 + lo.
StroopsPerUnit == 10000000   \* the factor 10_000_000 of verify
X402Version == 1             \* X402_CONFIG.x402Version
\* parseFloat returns the double nearest to the decimal: in [2^29, 2^30)
\* the doubles are the multiples of 2^-23
DoubleStepsPerUnit == 8388608

\* amounts with a fraction are paid on top of this many units
BigUnits == 600000000
MaxPaidFrac == 4             \* largest fraction (stroops) of a paid amount

Amount(units, frac) == [units |-> units, frac |-> frac]
BigInt(hi, lo) == [hi |-> hi, lo |-> lo]
\* a < b on BigInt
BigLess(a, b) == a.hi < b.hi \/ (a.hi = b.hi /\ a.lo < b.lo)

\* parseFloat(amount): the units and the number of 2^-23 steps above them
\* (round to nearest; a whole amount is a double itself)
ParseFloat(amount) ==
  [units |-> amount.units,
   steps |-> ((2 * amount.frac * DoubleStepsPerUnit) + StroopsPerUnit)
               \div (2 * StroopsPerUnit)]

\* x * 10_000_000 in double arithmetic: the exact product
\* units * 10^7 + steps * 10^7 / 2^23 rounded to the nearest double, which
\* is an integer for a product in [2^52, 2^53) (ties to even), and exact
\* for a whole x
TimesTenMillion(x) ==
  LET q == (x.steps * StroopsPerUnit) \div DoubleStepsPerUnit
      r == (x.steps * StroopsPerUnit) % DoubleStepsPerUnit IN
  [units |-> x.units,
   stroops |-> IF 2 * r > DoubleStepsPerUnit
                  \/ (2 * r = DoubleStepsPerUnit /\ q % 2 = 1)
               THEN q + 1 ELSE q]

\* BigInt(Math.floor(parseFloat(amount) * 10_000_000))
ToStroops(amount) ==
  LET y == TimesTenMillion(ParseFloat(amount)) IN BigInt(y.units, y.stroops)

VerifyResult(isValid, invalidReason, payer) ==
  [isValid |-> isValid, invalidReason |-> invalidReason, payer |-> payer]
Invalid(invalidReason) == VerifyResult(FALSE, invalidReason, "none")

\* transaction.operations.find((op) => op.type === 'payment'): its index, 0
FindPayment(operations) ==
  IF \E i \in DOMAIN operations : operations[i].type = "payment"
  THEN CHOOSE i \in DOMAIN operations :
         /\ operations[i].type = "payment"
         /\ \A k \in 1..(i - 1) : operations[k].type # "payment"
  ELSE 0

\* verify(paymentPayload, paymentRequirements) of a facilitator that is
\* configured or not, with the Horizon account of the payer: `loads` tells
\* whether loadAccount returned, `balance` is the balance of the paid asset
verify(paymentPayload, paymentRequirements, isConfigured, account) ==
  LET payload == paymentPayload.payload
      transaction == payload.signedTxXdr
      p == FindPayment(transaction.operations)
      paymentOp == transaction.operations[p]
      amountInStroops == ToStroops(paymentOp.amount)
      requiredAmount == paymentRequirements.maxAmountRequired
      assetCode == paymentOp.asset
      expectedAsset == paymentRequirements.asset
  IN
  IF paymentPayload.scheme = "undefined"
  THEN Invalid("Invalid payment payload type for crypto payment")
  ELSE IF ~isConfigured THEN Invalid("Facilitator not configured")
  ELSE IF paymentPayload.x402Version # X402Version
  THEN Invalid("Unsupported x402 version")
  ELSE IF paymentPayload.network # "stellar-testnet" THEN Invalid("Wrong network")
  ELSE IF paymentPayload.scheme # "exact" THEN Invalid("Unsupported scheme")
  ELSE IF ~transaction.decodes THEN Invalid("XDR read error")
  ELSE IF transaction.source # payload.sourceAccount
  THEN Invalid("Transaction source account mismatch")
  ELSE IF Len(transaction.signatures) = 0
  THEN Invalid("Transaction has no signatures")
  ELSE IF ~\E s \in DOMAIN transaction.signatures :
             transaction.signatures[s] = payload.sourceAccount
  THEN Invalid("Invalid transaction signature")
  ELSE IF p = 0 THEN Invalid("No payment operation found in transaction")
  ELSE IF paymentOp.destination # paymentRequirements.payTo
  THEN Invalid("Payment destination mismatch")
  ELSE IF BigLess(amountInStroops, requiredAmount)
  THEN Invalid("Insufficient payment amount")
  ELSE IF expectedAsset = "native" /\ assetCode # "native"
  THEN Invalid("Expected native XLM payment")
  ELSE IF expectedAsset # "native" /\ expectedAsset # assetCode
  THEN Invalid("Asset mismatch")
  ELSE IF ~account.loads THEN Invalid("Failed to verify payer balance")
  ELSE IF BigLess(ToStroops(account.balance), requiredAmount)
  THEN Invalid("Insufficient balance")
  ELSE VerifyResult(TRUE, "none", payload.sourceAccount)

\* ------------------------------------------------------ the calls of verify
PaidAmounts ==
  {Amount(1, 0), Amount(2, 0)} \cup {Amount(BigUnits, f) : f \in 0..MaxPaidFrac}
RequiredAmounts ==
  {BigInt(1, 0), BigInt(2, 0)}
    \cup {BigInt(BigUnits, f) : f \in 0..(MaxPaidFrac + 1)}
Assets == {"native", "USDC"}
\* payload.amount, the amount the payload claims (not what the transaction pays)
ClaimedAmounts == {BigInt(0, 0), BigInt(BigUnits, MaxPaidFrac + 1)}

PaymentOp(amount, asset) ==
  [type |-> "payment", destination |-> "GA", amount |-> amount, asset |-> asset]
OtherOp ==
  [type |-> "createAccount", destination |-> "GA", amount |-> Amount(0, 0),
   asset |-> "native"]

\* a well-formed payload: a transaction of the payer, signed by the payer,
\* that pays `amount` of `asset` to GA
GoodPayload(amount, asset, claimed) ==
  [x402Version |-> X402Version, scheme |-> "exact", network |-> "stellar-testnet",
   payload |-> [signedTxXdr |-> [decodes |-> TRUE, source |-> "payer",
                                 signatures |-> <<"payer">>,
                                 operations |-> <<PaymentOp(amount, asset)>>],
                sourceAccount |-> "payer", amount |-> claimed]]

\* the payload and the payloads that differ from it in one respect
Payloads(b) ==
  {b,
   [b EXCEPT !.scheme = "undefined"],
   [b EXCEPT !.x402Version = X402Version + 1],
   [b EXCEPT !.network = "stellar-mainnet"],
   [b EXCEPT !.scheme = "upto"],
   [b EXCEPT !.payload.signedTxXdr.decodes = FALSE],
   [b EXCEPT !.payload.signedTxXdr.source = "other"],
   [b EXCEPT !.payload.signedTxXdr.signatures = <<>>],
   [b EXCEPT !.payload.signedTxXdr.signatures = <<"other">>],
   [b EXCEPT !.payload.signedTxXdr.signatures = <<"other", "payer">>],
   [b EXCEPT !.payload.signedTxXdr.operations = <<OtherOp>>],
   [b EXCEPT !.payload.signedTxXdr.operations = <<OtherOp>> \o @],
   [b EXCEPT !.payload.signedTxXdr.operations[1].destination = "GB"]}

Requirements == 
  {[payTo |-> "GA", maxAmountRequired |-> r, asset |-> a] :
     r \in RequiredAmounts, a \in Assets}

\* whether the facilitator has its key, and the account Horizon returns
Environments ==
  {[isConfigured |-> TRUE,
    account |-> [loads |-> TRUE, balance |-> Amount(BigUnits + BigUnits \div 2, 0)]],
   [isConfigured |-> TRUE, account |-> [loads |-> TRUE, balance |-> Amount(0, 0)]],
   [isConfigured |-> TRUE, account |-> [loads |-> FALSE, balance |-> Amount(0, 0)]],
   [isConfigured |-> FALSE, account |-> [loads |-> TRUE, balance |-> Amount(0, 0)]]}

VerifyCalls ==
  {[op |-> "verify", paymentPayload |-> pp, paymentRequirements |-> rq,
    env |-> e, done |-> FALSE, result |-> Invalid("none")] :
     pp \in UNION {Payloads(GoodPayload(am, as, cl)) :
                     am \in PaidAmounts, as \in Assets, cl \in ClaimedAmounts},
     rq \in Requirements, e \in Environments}

\* the call of facilitator.verify returns
FacilitatorVerify ==
  /\ call.op = "verify"
  /\ ~call.done
  /\ call' = [call EXCEPT !.done = TRUE,
                          !.result = verify(call.paymentPayload,
                                            call.paymentRequirements,
                                            call.env.isConfigured,
                                            call.env.account)]
  /\ UNCHANGED <<jobs, jobObjects, jobsByOrderId, creating, timers, fiat, ret,
               sent>>
  /\ UNCHANGED queueVars

\* ============================ encodeSettlementHeader / decodeSettlementHeader
\* A string is the sequence of its UTF-16 code units, a Buffer the sequence
\* of its bytes, a base64 text the sequence of the indices of its
\* characters in the base64 alphabet (64 for '=').  An object is the
\* sequence of its own properties in insertion order.
Ch == [quote |-> 34, backslash |-> 92, newline |-> 10, n |-> 110, comma |-> 44,
       colon |-> 58, open |-> 123, close |-> 125, t |-> 116, f |-> 102,
       replacement |-> 65533, pad |-> 64]

\* the property names of SettlementResponse
KeyChars ==
  [success |-> <<115, 117, 99, 99, 101, 115, 115>>,
   type |-> <<116, 121, 112, 101>>,
   transaction |-> <<116, 114, 97, 110, 115, 97, 99, 116, 105, 111, 110>>,
   network |-> <<110, 101, 116, 119, 111, 114, 107>>,
   payer |-> <<112, 97, 121, 101, 114>>,
   currency |-> <<99, 117, 114, 114, 101, 110, 99, 121>>,
   errorReason |-> <<101, 114, 114, 111, 114, 82, 101, 97, 115, 111, 110>>]

Bool(b) == [t |-> "boolean", b |-> b, s |-> <<>>]
String(s) == [t |-> "string", b |-> FALSE, s |-> s]
Null == [t |-> "null", b |-> FALSE, s |-> <<>>]
Undefined == [t |-> "undefined", b |-> FALSE, s |-> <<>>]
Property(key, value) == [key |-> key, value |-> value]

\* the concatenation of the sequences of seqs (by halves)
RECURSIVE Concat(_)
Concat(seqs) ==
  IF Len(seqs) = 0 THEN <<>>
  ELSE IF Len(seqs) = 1 THEN seqs[1]
  ELSE Concat(SubSeq(seqs, 1, Len(seqs) \div 2))
         \o Concat(SubSeq(seqs, (Len(seqs) \div 2) + 1, Len(seqs)))

\* JSON.stringify of a string: quotes, and escapes for '"', '\' and newline
Escape(c) ==
  IF c = Ch.quote THEN <<Ch.backslash, Ch.quote>>
  ELSE IF c = Ch.backslash THEN <<Ch.backslash, Ch.backslash>>
  ELSE IF c = Ch.newline THEN <<Ch.backslash, Ch.n>>
  ELSE <<c>>
Quote(s) ==
  <<Ch.quote>> \o Concat([i \in DOMAIN s |-> Escape(s[i])]) \o <<Ch.quote>>

\* JSON.stringify of a value: true, false, null or a quoted string
Serialize(value) ==
  IF value.t = "boolean"
  THEN IF value.b THEN <<116, 114, 117, 101>> ELSE <<102, 97, 108, 115, 101>>
  ELSE IF value.t = "null" THEN <<110, 117, 108, 108>>
  ELSE Quote(value.s)

\* JSON.stringify(response): the properties holding undefined are left out
Stringify(object) ==
  LET kept == SelectSeq(object, LAMBDA p : p.value.t # "undefined")
      member(i) == (IF i = 1 THEN <<>> ELSE <<Ch.comma>>)
                     \o Quote(KeyChars[kept[i].key]) \o <<Ch.colon>>
                     \o Serialize(kept[i].value) IN
  <<Ch.open>> \o Concat([i \in DOMAIN kept |-> member(i)]) \o <<Ch.close>>

\* Buffer.from(string): the UTF-8 bytes of a code unit
Utf8Bytes_Latin1(c) == <<c % 256>>
Utf8Bytes(c) ==
  IF c < 128 THEN <<c>>
  ELSE IF c < 2048 THEN <<192 + (c \div 64), 128 + (c % 64)>>
  ELSE <<224 + (c \div 4096), 128 + ((c \div 64) % 64), 128 + (c % 64)>>
BufferFrom(chars) == Concat([i \in DOMAIN chars |-> Utf8Bytes(chars[i])])

\* buffer.toString('base64'): four digits for every three bytes, '=' for
\* the bytes the last group lacks
ToBase64(bytes) ==
  LET group(g) ==
        LET b == SubSeq(bytes, (3 * g) - 2, IF 3 * g < Len(bytes) THEN 3 * g
                                             ELSE Len(bytes)) IN
        IF Len(b) = 1
        THEN <<b[1] \div 4, (b[1] % 4) * 16, Ch.pad, Ch.pad>>
        ELSE IF Len(b) = 2
        THEN <<b[1] \div 4, ((b[1] % 4) * 16) + (b[2] \div 16),
               (b[2] % 16) * 4, Ch.pad>>
        ELSE <<b[1] \div 4, ((b[1] % 4) * 16) + (b[2] \div 16),
               ((b[2] % 16) * 4) + (b[3] \div 64), b[3] % 64>> IN
  Concat([g \in 1..((Len(bytes) + 2) \div 3) |-> group(g)])

\* Buffer.from(encoded, 'base64'): three bytes for every four digits, fewer
\* where the group is padded or cut
FromBase64(text) ==
  LET group(g) ==
        LET d == SubSeq(text, (4 * g) - 3, IF 4 * g < Len(text) THEN 4 * g
                                            ELSE Len(text)) IN
        IF Len(d) < 2 \/ d[1] = Ch.pad \/ d[2] = Ch.pad THEN <<>>
        ELSE <<(d[1] * 4) + (d[2] \div 16)>> \o
             ( IF Len(d) < 3 \/ d[3] = Ch.pad THEN <<>>
               ELSE <<((d[2] % 16) * 16) + (d[3] \div 4)>> \o
                    ( IF Len(d) < 4 \/ d[4] = Ch.pad THEN <<>>
                      ELSE <<((d[3] % 4) * 64) + d[4]>> ) ) IN
  Concat([g \in 1..((Len(text) + 3) \div 4) |-> group(g)])

\* buffer.toString('utf-8'): the number of bytes of the sequence that
\* starts at byte i, 0 when none starts there
IsContinuation(bytes, i) == i \in DOMAIN bytes /\ bytes[i] \in 128..191
SequenceAt(bytes, i) ==
  IF i \notin DOMAIN bytes THEN 0
  ELSE IF bytes[i] < 128 THEN 1
  ELSE IF bytes[i] \in 192..223 /\ IsContinuation(bytes, i + 1) THEN 2
  ELSE IF bytes[i] \in 224..239 /\ IsContinuation(bytes, i + 1)
                                /\ IsContinuation(bytes, i + 2) THEN 3
  ELSE 0

\* buffer.toString('utf-8'): every sequence gives its code unit, a byte
\* that is in no sequence gives U+FFFD
Utf8ToString(bytes) ==
  LET unit(i) ==
        IF SequenceAt(bytes, i) = 1 THEN <<bytes[i]>>
        ELSE IF SequenceAt(bytes, i) = 2
        THEN <<((bytes[i] - 192) * 64) + (bytes[i + 1] - 128)>>
        ELSE IF SequenceAt(bytes, i) = 3
        THEN <<((bytes[i] - 224) * 4096) + ((bytes[i + 1] - 128) * 64)
                 + (bytes[i + 2] - 128)>>
        ELSE IF SequenceAt(bytes, i - 1) >= 2 \/ SequenceAt(bytes, i - 2) = 3
        THEN <<>>
        ELSE <<Ch.replacement>> IN
  Concat([i \in DOMAIN bytes |-> unit(i)])

\* JSON.parse of a string literal whose opening quote is before position i:
\* the string and the position after its closing quote
Unescape(c) == IF c = Ch.n THEN Ch.newline ELSE c
RECURSIVE ReadString(_, _, _)
ReadString(text, i, acc) ==
  IF i > Len(text) THEN [s |-> acc, next |-> i]
  ELSE IF text[i] = Ch.quote THEN [s |-> acc, next |-> i + 1]
  ELSE IF text[i] = Ch.backslash /\ i < Len(text)
  THEN ReadString(text, i + 2, Append(acc, Unescape(text[i + 1])))
  ELSE ReadString(text, i + 1, Append(acc, text[i]))

\* JSON.parse of the value at position i: the value and the position after
ReadValue(text, i) ==
  IF text[i] = Ch.quote
  THEN LET str == ReadString(text, i + 1, <<>>) IN
       [value |-> String(str.s), next |-> str.next]
  ELSE IF text[i] = Ch.t THEN [value |-> Bool(TRUE), next |-> i + 4]
  ELSE IF text[i] = Ch.f THEN [value |-> Bool(FALSE), next |-> i + 5]
  ELSE [value |-> Null, next |-> i + 4]

\* JSON.parse of the members from position i on, after the properties acc
RECURSIVE ReadMembers(_, _, _)
ReadMembers(text, i, acc) ==
  IF i + 1 > Len(text) \/ text[i] # Ch.quote THEN acc
  ELSE LET name == ReadString(text, i + 1, <<>>)
           v == ReadValue(text, name.next + 1)
           key == CHOOSE k \in DOMAIN KeyChars : KeyChars[k] = name.s
           properties == Append(acc, Property(key, v.value)) IN
       IF name.next + 1 > Len(text)
            \/ ~\E k \in DOMAIN KeyChars : KeyChars[k] = name.s
       THEN acc
       ELSE IF v.next <= Len(text) /\ text[v.next] = Ch.comma
       THEN ReadMembers(text, v.next + 1, properties)
       ELSE properties

\* JSON.parse(text) of an object
Parse(text) == ReadMembers(text, 2, <<>>)

encodeSettlementHeader(response) == ToBase64(BufferFrom(Stringify(response)))
decodeSettlementHeader(encoded) == Parse(Utf8ToString(FromBase64(encoded)))

\* object[key]: the value of the property, undefined when there is none
Get(object, key) ==
  IF \E i \in DOMAIN object : object[i].key = key
  THEN object[CHOOSE i \in DOMAIN object : object[i].key = key].value
  ELSE Undefined

\* ------------------------------------------- the settlement responses
Strings == {<<>>, <<97>>, <<34, 92, 97>>, <<10, 233, 8364>>}
\* an optional property: absent, holding undefined, or holding a string
Optional(key) ==
  {<<>>, <<Property(key, Undefined)>>, <<Property(key, String(<<97, 34>>))>>}

SettlementResponses ==
  {<<Property("success", Bool(success)), Property("type", String(type)),
     Property("transaction", transaction)>>
     \o network \o payer \o currency \o <<Property("errorReason", errorReason)>> :
   success \in BOOLEAN,
   type \in {<<99, 114, 121, 112, 116, 111>>, <<102, 105, 97, 116>>},
   transaction \in {Null} \cup {String(s) : s \in Strings},
   network \in Optional("network"), payer \in Optional("payer"),
   currency \in Optional("currency"),
   errorReason \in {Null, String(<<92, 110>>), String(<<233>>)}}

SettlementCalls ==
  {[op |-> "settlementHeader", response |-> v, pc |-> "encode",
    header |-> <<>>, decoded |-> <<>>] : v \in SettlementResponses}

EncodeSettlementHeader ==
  /\ call.op = "settlementHeader"
  /\ call.pc = "encode"
  /\ call' = [call EXCEPT !.pc = "decode",
                          !.header = encodeSettlementHeader(call.response)]
  /\ UNCHANGED <<jobs, jobObjects, jobsByOrderId, creating, timers, fiat, ret,
               sent>>
  /\ UNCHANGED queueVars

DecodeSettlementHeader ==
  /\ call.op = "settlementHeader"
  /\ call.pc = "decode"
  /\ call' = [call EXCEPT !.pc = "done",
                          !.decoded = decodeSettlementHeader(call.header)]
  /\ UNCHANGED <<jobs, jobObjects, jobsByOrderId, creating, timers, fiat, ret,
               sent>>
  /\ UNCHANGED queueVars

\* --------------------------------------------- createPaymentJob's amounts
MaxUsdSteps == 7         \* largest amount below one dollar, in 2^-26 dollars

\* the amounts @IsPositive() lets through: whole dollars, a few 2^-26
\* dollars, and the doubles of PaidAmounts (a step of 2^-23 is 8 of 2^-26)
UsdAmounts ==
  {Usd(1, 0), Usd(2, 0), Usd(10, 0)}
    \cup {Usd(0, s) : s \in 1..MaxUsdSteps}
    \cup {Usd(BigUnits, 8 * k) : k \in 0..MaxPaidFrac}

CreateCalls ==
  {[op |-> "createPaymentJob", amountUsd |-> a, done |-> FALSE, job |-> 0] :
     a \in UsdAmounts}

\* createPaymentJob builds the job object and its requirements
BuildJob ==
  /\ call.op = "createPaymentJob"
  /\ ~call.done
  /\ call' = [call EXCEPT !.done = TRUE,
                          !.job = NewJob(1, call.amountUsd, "GA", TRUE)]
  /\ UNCHANGED <<jobs, jobObjects, jobsByOrderId, creating, timers, fiat, ret,
               sent>>
  /\ UNCHANGED queueVars

\* ------------------------------------------------ the functions on their own
FnInit ==
  /\ jobs = {} /\ jobObjects = <<>> /\ jobsByOrderId = <<>>
  /\ creating = {} /\ timers = {} /\ fiat = <<>> /\ ret = NoRet
  /\ tail = Resolved /\ queueDepth = 0 /\ enqueued = 0 /\ tasks = <<>>
  /\ call \in VerifyCalls \cup SettlementCalls \cup CreateCalls
  /\ sent = <<>>

FnNext ==
  \/ FacilitatorVerify
  \/ EncodeSettlementHeader
  \/ DecodeSettlementHeader
  \/ BuildJob

FnSpec == FnInit /\ [][FnNext]_vars

\* ================================================================ claims
\* C1: at every moment at most one task passed to enqueue is executing, and
\* so at most one facilitator.settle call is in flight.
C1_OneTaskAtATime ==
  /\ Cardinality({i \in DOMAIN tasks : Running(i)}) <= 1
  /\ Cardinality({i \in DOMAIN tasks : tasks[i].pc = "settle"}) <= 1

\* two proofs were accepted; the task of one is in settle, the other waits
C1_Witness ==
  \E i, k \in DOMAIN tasks :
    /\ tasks[i].pc = "settle"
    /\ tasks[k].pc = "waiting"
    /\ queueDepth = 2

\* C2: tasks start in the order of the enqueue calls: a task enqueued
\* later has not started while a task enqueued earlier has not finished,
\* whether that one returns or throws.
C2_EnqueueOrder ==
  \A i, k \in DOMAIN tasks :
    i < k => /\ tasks[i].id < tasks[k].id
             /\ tasks[k].pc = "waiting"

\* a task that will throw runs while two later tasks wait for it
C2_Witness ==
  /\ Len(tasks) = 3
  /\ tasks[1].pc = "running"
  /\ ~tasks[1].behaviour.ok
  /\ tasks[2].pc = "waiting"

\* C3: when a task ends, the promise of its enqueue call settles as the
\* task did, with the task's own value or error, whatever the tasks before
\* it did; and every task that was enqueued ends, also behind a failed one.
C3_FailureIsolated ==
  /\ [][\A i \in DOMAIN tasks :
          tasks[i].id \notin {tasks'[k].id : k \in DOMAIN tasks'}
            => /\ ret'.op = "enqueue"
               /\ ret'.task = tasks[i].id
               /\ ret'.fulfilled = tasks[i].behaviour.ok
               /\ ret'.value = tasks[i].behaviour.val]_vars
  /\ \A t \in 1..MaxQTasks : (t \in Pending) ~> (t \notin Pending)

\* a task has just rejected with its error and the task behind it may start
C3_Witness ==
  /\ ret.op = "enqueue"
  /\ ~ret.fulfilled
  /\ ret.value = [op |-> "a"]
  /\ tasks # <<>>
  /\ CanStart(1)
  /\ tasks[1].behaviour = [ok |-> TRUE, val |-> [op |-> "b"]]

\* the statuses from which createPaymentJob makes a new job for the order
Dead == {"failed", "expired", "completed"}

\* C4: once the status of a job is failed or expired, no step changes it.
C4_TerminalStatusFinal ==
  [][\A j \in DOMAIN jobObjects :
       jobObjects[j].status \in {"failed", "expired"}
         => jobObjects'[j].status = jobObjects[j].status]_vars

\* C5 as stated: every fiat proof for a job locked to crypto and every
\* crypto payload for a job locked to fiat is answered with the conflict
\* error and leaves the job as it was.
C5_MethodLockAlways ==
  \A j \in jobs :
    /\ jobObjects[j].paymentMethod = "crypto" =>
         /\ HandleFiatPaymentOutcome(j).ret =
              FiatResponse(j, FALSE, "Payment method already locked to crypto")
         /\ HandleFiatPaymentOutcome(j).fiat = fiat
    /\ jobObjects[j].paymentMethod = "fiat" =>
         LET out == ProcessPaymentOutcome(j, CryptoHeader(NextPayload)) IN
         /\ out.ret = Result(FALSE, "failed",
                             "Payment method already locked to fiat for this order",
                             NoSettle, FALSE)
         /\ ~out.enqueue
         /\ out.objs = jobObjects

\* C5: every fiat proof for a job locked to crypto is answered with the
\* conflict error and starts no bank verification; every crypto payload
\* passed to processPayment for a job locked to fiat before its expiresAt,
\* while its status is not completed, settled or verified, is answered
\* with the conflict error, is not enqueued and leaves the job as it was.
C5_MethodLock ==
  \A j \in jobs :
    /\ jobObjects[j].paymentMethod = "crypto" =>
         /\ HandleFiatPaymentOutcome(j).ret =
              FiatResponse(j, FALSE, "Payment method already locked to crypto")
         /\ HandleFiatPaymentOutcome(j).fiat = fiat
    /\ ( /\ jobObjects[j].paymentMethod = "fiat"
         /\ jobObjects[j].age <= paymentTimeoutMs
         /\ jobObjects[j].status \notin {"completed", "settled", "verified"} ) =>
         LET out == ProcessPaymentOutcome(j, CryptoHeader(NextPayload)) IN
         /\ out.ret = Result(FALSE, "failed",
                             "Payment method already locked to fiat for this order",
                             NoSettle, FALSE)
         /\ ~out.enqueue
         /\ out.objs = jobObjects

\* a fiat proof failed its bank verification, the job is locked to fiat and
\* still open, and a crypto payload gets the conflict error
C5_Witness ==
  \E j \in jobs :
    /\ jobObjects[j].paymentMethod = "fiat"
    /\ jobObjects[j].status = "payment_required"
    /\ jobObjects[j].age <= paymentTimeoutMs
    /\ ret.op = "handleFiatPayment" /\ ~ret.success
    /\ ProcessPaymentOutcome(j, CryptoHeader(NextPayload)).ret =
         Result(FALSE, "failed",
                "Payment method already locked to fiat for this order",
                NoSettle, FALSE)

\* C6: the locked payment method of a job, once crypto or fiat, never
\* becomes the other value.
C6_MethodNeverFlips ==
  [][\A j \in DOMAIN jobObjects :
       jobObjects[j].paymentMethod # "none"
         => jobObjects'[j].paymentMethod = jobObjects[j].paymentMethod]_vars

\* the job the order index holds for orderId is in the table and live
CurrentJobLive(orderId) ==
  /\ orderId \in DOMAIN jobsByOrderId
  /\ jobsByOrderId[orderId] \in jobs
  /\ jobObjects[jobsByOrderId[orderId]].status \notin Dead

\* what createPaymentJob does on an order whose current job is live
ReturnsCurrentJob ==
  \A orderId \in OrderIds, tm \in Terms :
    CurrentJobLive(orderId) =>
      LET out == CreatePaymentJobOutcome(orderId, tm[1], tm[2], tm[3])
          current == jobsByOrderId[orderId] IN
      /\ out.ret = CreateReturnValue(FALSE, current,
                                     jobObjects[current].paymentRequirements)
      /\ out.created = 0
      /\ out.jobs = jobs
      /\ out.objs = jobObjects
      /\ out.byOrder = jobsByOrderId

\* C7: createPaymentJob on an order whose current job is live returns the
\* jobId of that job and its payment requirements, which are those the
\* first call issued since no step rewrites them, whatever amount and
\* payee it is called with; it creates no job and leaves the job table,
\* the job objects and the order index as they were.
C7_IdempotentCreation ==
  /\ []ReturnsCurrentJob
  /\ [][\A j \in DOMAIN jobObjects :
          jobObjects'[j].paymentRequirements =
            jobObjects[j].paymentRequirements]_vars

\* the order index holds the second job of an order, made for 2 USD, which
\* is being verified; a call for 1 USD without payee is given that job
C7_Witness ==
  \E orderId \in OrderIds :
    /\ CurrentJobLive(orderId)
    /\ jobsByOrderId[orderId] = 2
    /\ jobObjects[2].status = "verifying"
    /\ jobObjects[2].paymentRequirements.maxAmountRequired = usdToAtomic(Usd(2, 0))
    /\ jobObjects[1].orderId = orderId
    /\ CreatePaymentJobOutcome(orderId, Usd(1, 0), "none", FALSE).ret.jobId = 2

\* C8: for every orderId at most one job of the job table is live.
C8_OneLiveJobPerOrder ==
  \A orderId \in OrderIds :
    Cardinality({j \in jobs : /\ jobObjects[j].orderId = orderId
                              /\ jobObjects[j].status \notin Dead}) <= 1

\* C9: when the status of a job becomes settled, the job held before that
\* step the valid verify result of the payload that was settled, and it
\* holds a valid verify result after it.
C9_SettledOnlyVerified ==
  [][\A j \in DOMAIN jobObjects :
       (jobObjects[j].status # "settled" /\ jobObjects'[j].status = "settled")
         => /\ jobObjects[j].verifyResponse =
                 VerifyResponse(TRUE, jobObjects'[j].settleResponse.payer)
            /\ jobObjects'[j].verifyResponse.isValid
            /\ jobObjects'[j].settleResponse.success]_vars

\* the second proof accepted for a job was verified and settled
C9_Witness ==
  \E j \in jobs :
    /\ jobObjects[j].status = "settled"
    /\ jobObjects[j].settleResponse = SettleResponse(TRUE, 2)
    /\ jobObjects[j].verifyResponse = VerifyResponse(TRUE, 2)

\* the one step forward of each status
Successor ==
  {<<"payment_required", "payment_received">>, <<"payment_received", "verifying">>,
   <<"verifying", "verified">>, <<"verified", "settling">>,
   <<"settling", "settled">>, <<"settled", "completed">>}

\* C10: every status change of a job is one step forward in the order
\* payment_required, payment_received, verifying, verified, settling,
\* settled, completed, or a move into failed or expired.
C10_StatusOrder ==
  [][\A j \in DOMAIN jobObjects :
       jobObjects'[j].status # jobObjects[j].status
         => \/ jobObjects'[j].status \in {"failed", "expired"}
            \/ <<jobObjects[j].status, jobObjects'[j].status>> \in Successor]_vars

\* C11: confirmPayment succeeds exactly when the job is in the table and
\* its status is settled: it then sets the status to completed and records
\* manuallyConfirmed, confirmedAt and confirmedBy; in every other status it
\* returns success = false with the status of the job and leaves every job
\* as it was; for an id not in the table it returns the not-found error.
\* And no step sets manuallyConfirmed other than on a settled job.
C11_ConfirmOnlySettled ==
  /\ [](\A j \in JobIds, confirmedBy \in ConfirmedBys :
         LET out == ConfirmPaymentOutcome(j, confirmedBy) IN
         IF j \notin jobs
         THEN /\ out.ret = ConfirmResult(FALSE, "failed", "Payment job not found")
              /\ out.objs = jobObjects
         ELSE IF jobObjects[j].status = "settled"
         THEN /\ out.ret = ConfirmResult(TRUE, "completed", "none")
              /\ out.objs =
                   [jobObjects EXCEPT ![j].status = "completed",
                                      ![j].manuallyConfirmed = TRUE,
                                      ![j].confirmedAt = jobObjects[j].age,
                                      ![j].confirmedBy = confirmedBy]
         ELSE /\ ~out.ret.success
              /\ out.ret.status = jobObjects[j].status
              /\ out.objs = jobObjects)
  /\ [][\A j \in DOMAIN jobObjects :
          jobObjects'[j].manuallyConfirmed # jobObjects[j].manuallyConfirmed
            => /\ jobObjects[j].status = "settled"
               /\ jobObjects'[j].status = "completed"
               /\ jobObjects'[j].confirmedAt = jobObjects[j].age]_vars

\* a settled job was confirmed by the agent half an hour past its expiry
C11_Witness ==
  \E j \in jobs :
    /\ jobObjects[j].status = "completed"
    /\ jobObjects[j].manuallyConfirmed
    /\ jobObjects[j].confirmedBy = "agent"
    /\ jobObjects[j].confirmedAt = TickMs
    /\ jobObjects[j].settleResponse.success

\* C12: the status of a job becomes completed only from settled.
C12_CompletedOnlyFromSettled ==
  [][\A j \in DOMAIN jobObjects :
       (jobObjects[j].status # "completed" /\ jobObjects'[j].status = "completed")
         => jobObjects[j].status = "settled"]_vars

\* C13: when a verifyAndSettle task returns success, a job that needs no
\* manual confirmation is completed and the result says completed, a job
\* that needs one is settled and the result says settled with
\* requiresManualConfirmation; and a settled job that needs one becomes
\* completed only by confirmPayment.
C13_SettleOutcome ==
  [][/\ \A i \in DOMAIN tasks :
          ( /\ tasks[i].id \notin {tasks'[k].id : k \in DOMAIN tasks'}
            /\ ret'.value.success )
            => LET job == tasks[i].job IN
               IF jobObjects[job].requiresManualConfirmation
               THEN /\ jobObjects'[job].status = "settled"
                    /\ ret'.value.status = "settled"
                    /\ ret'.value.requiresManualConfirmation
               ELSE /\ jobObjects'[job].status = "completed"
                    /\ ret'.value.status = "completed"
     /\ \A j \in DOMAIN jobObjects :
          ( /\ jobObjects[j].requiresManualConfirmation
            /\ jobObjects[j].status = "settled"
            /\ jobObjects'[j].status = "completed" )
            => /\ ~jobObjects[j].manuallyConfirmed
               /\ jobObjects'[j].manuallyConfirmed]_vars

\* C14: cleanupExpiredJobs removes from the job table exactly the jobs
\* whose status is expired or failed and whose expiresAt is more than the
\* retention of one hour in the past, and returns their number; it writes
\* to no job object, and called again at once it removes nothing and
\* returns 0.
C14_SweepExact ==
  /\ [](LET gone == {j \in jobs :
                       /\ jobObjects[j].status \in {"expired", "failed"}
                       /\ jobObjects[j].age > paymentTimeoutMs + RetentionMs} IN
        /\ CleanupOutcome.jobs = jobs \ gone
        /\ CleanupOutcome.cleaned = Cardinality(gone))
  /\ [][cleanupExpiredJobs
          => /\ jobObjects' = jobObjects
             /\ CleanupOutcome'.jobs = jobs'
             /\ CleanupOutcome'.cleaned = 0]_vars

\* the sweep removed the expired first job and kept the second, completed
\* and as old
C14_Witness ==
  /\ Len(jobObjects) = 2
  /\ jobs = {2}
  /\ jobObjects[1].status = "expired"
  /\ PastRetention(jobObjects[1])
  /\ jobObjects[2].status = "completed"
  /\ PastRetention(jobObjects[2])
  /\ CleanupOutcome.cleaned = 0

\* C15: a job whose status is completed keeps that status and stays in
\* the job table.
C15_CompletedStays ==
  [][\A j \in DOMAIN jobObjects :
       jobObjects[j].status = "completed"
         => /\ jobObjects'[j].status = "completed"
            /\ (j \in jobs => j \in jobs')]_vars

\* C18: createPaymentJob for an order without live job, called without
\* payTo while no default payee is configured, throws and leaves the job
\* table, the job objects and the order index as they were; the step of
\* such a call arms no timer and sends no notification.
C18_NoPayeeFails ==
  /\ [](\A o \in OrderIds, tm \in Terms :
         ExistingLiveJob(o) = 0 =>
           LET out == CreatePaymentJobOutcome(o, tm[1], "none", tm[3]) IN
           /\ out.ret = CreateReturnValue(TRUE, 0, [maxAmountRequired |-> 0,
                                                    payTo |-> "none"])
           /\ out.created = 0
           /\ out.jobs = jobs
           /\ out.objs = jobObjects
           /\ out.byOrder = jobsByOrderId)
  /\ [][\A o \in OrderIds, tm \in {t \in Terms : t[2] = "none"},
           cont \in Continuations :
          (ExistingLiveJob(o) = 0 /\ CreatePaymentJob(o, tm[1], tm[2], tm[3], cont))
            => UNCHANGED <<jobs, jobObjects, jobsByOrderId, creating, timers>>]_vars

\* the only job of an order has failed, and a call for that order without
\* payee throws
C18_Witness ==
  \E o \in DOMAIN jobsByOrderId :
    /\ jobsByOrderId[o] \in jobs
    /\ jobObjects[jobsByOrderId[o]].status = "failed"
    /\ ExistingLiveJob(o) = 0
    /\ CreatePaymentJobOutcome(o, Usd(1, 0), "none", FALSE).ret.threw

\* C19: a processPayment call that returns the invalid-payload error for a
\* header that cannot be decoded leaves every job as it was.
C19_UndecodableLeavesJob ==
  \A j \in jobs :
    LET out == ProcessPaymentOutcome(j, [type |-> "undecodable", payload |-> 0]) IN
    out.ret.error = "Invalid payment payload"
      => /\ out.objs = jobObjects
         /\ ~out.enqueue

\* C20: a crypto proof is answered OK only when its processPayment result
\* has success = true, whether the call returned at once or after its
\* verifyAndSettle task.
C20_OkOnlyOnSuccess ==
  /\ [](\A j \in jobs :
         LET out == ProcessPaymentOutcome(j, CryptoHeader(NextPayload)) IN
         (~out.enqueue /\ CryptoHttpStatus(out.ret) = "OK") => out.ret.success)
  /\ [][(ret'.op = "enqueue" /\ CryptoHttpStatus(ret'.value) = "OK")
          => ret'.value.success]_vars
\* C16: whenever the amount of the payment operation of the decoded
\* transaction, in stroops, is below requirements.maxAmountRequired, verify
\* returns isValid = false, whatever the asset and the amount the payload
\* claims.
C16_AmountFloor ==
  (call.op = "verify" /\ call.done) =>
    LET transaction == call.paymentPayload.payload.signedTxXdr
        p == FindPayment(transaction.operations)
        paid == transaction.operations[p].amount IN
    ( /\ transaction.decodes
      /\ p # 0
      /\ BigLess(BigInt(paid.units, paid.frac),
                 call.paymentRequirements.maxAmountRequired) )
      => ~call.result.isValid

\* the values every property of an object reads as
Reads(object) == [key \in DOMAIN KeyChars |-> Get(object, key)]

\* C17: decodeSettlementHeader(encodeSettlementHeader(v)) has the value of
\* v in every property: success, type, transaction, network, payer,
\* currency and errorReason read the same (a property that is absent and
\* one that holds undefined both read undefined).
C17_RoundTrip ==
  (call.op = "settlementHeader" /\ call.pc = "done")
    => Reads(call.decoded) = Reads(call.response)

\* a response with a transaction holding a quote and a backslash, a payer
\* set to undefined and a non-ASCII error went through the header: the
\* decoded object has no payer property
C17_Witness ==
  /\ call.op = "settlementHeader"
  /\ call.pc = "done"
  /\ Get(call.response, "transaction") = String(<<34, 92, 97>>)
  /\ Get(call.response, "errorReason") = String(<<233>>)
  /\ \E i \in DOMAIN call.response : call.response[i] = Property("payer", Undefined)
  /\ \A i \in DOMAIN call.decoded : call.decoded[i].key # "payer"
  /\ Len(call.decoded) = 4

\* C22: a processPayment call on a job of the table made after the job's
\* expiresAt enqueues no verifyAndSettle task, returns success = false
\* with status expired and sets the status of the job to expired, whatever
\* the header and whatever the status the job had.
C22_LateProofExpires ==
  /\ [](\A j \in jobs, h \in Headers :
         jobObjects[j].age > paymentTimeoutMs =>
           LET out == ProcessPaymentOutcome(j, h) IN
           /\ ~out.enqueue
           /\ ~out.ret.success
           /\ out.ret.status = "expired"
           /\ out.objs[j].status = "expired")
  /\ [][\A j \in jobs, h \in Headers :
          (jobObjects[j].age > paymentTimeoutMs /\ ProcessPayment(j, h))
            => /\ UNCHANGED queueVars
               /\ jobObjects'[j].status = "expired"]_vars

\* a proof presented half an hour late expired a job whose payment had
\* been settled
C22_Witness ==
  \E j \in jobs :
    /\ jobObjects[j].status = "expired"
    /\ jobObjects[j].errorMessage = "Payment window expired"
    /\ jobObjects[j].age > paymentTimeoutMs
    /\ jobObjects[j].settleResponse.success

\* C23: registerPaymentOnChain calls depositFor of the contract only for a
\* job that is in the table with status settled or completed; for any
\* other job id it returns a failure result and makes no contract call.
\* And no step calls depositFor for another job.
C23_RegisterOnlySettled ==
  /\ [](\A j \in JobIds :
         LET out == RegisterPaymentOnChainOutcome(j) IN
         IF j \in jobs /\ jobObjects[j].status \in {"settled", "completed"}
         THEN /\ Len(out.sent) = 1
              /\ out.sent[1].type = "depositFor"
              /\ out.sent[1].jobId = j
         ELSE /\ out.sent = <<>>
              /\ out.ret.op = "registerPaymentOnChain"
              /\ ~out.ret.success)
  /\ [][\A k \in DOMAIN sent' :
          sent'[k].type = "depositFor"
            => /\ sent'[k].jobId \in jobs
               /\ jobObjects[sent'[k].jobId].status \in {"settled", "completed"}]_vars

\* depositFor was called for a settled job that awaits its confirmation
C23_Witness ==
  /\ Len(sent) = 1
  /\ sent[1].type = "depositFor"
  /\ sent[1].jobId \in jobs
  /\ jobObjects[sent[1].jobId].status = "settled"
  /\ jobObjects[sent[1].jobId].requiresManualConfirmation
  /\ RegisterPaymentOnChainOutcome(Len(jobObjects) + 1).ret
       = RegisterResult(FALSE, "Payment job not found")

\* C25: when the expiration timer of a job fires, it sets the status of the
\* job to expired and sends the X402_PAYMENT_EXPIRED notification if the job
\* is in the table and its status is payment_required; otherwise it changes
\* no job and sends nothing. No other step sends that notification.
C25_TimerExpiresOnlyRequired ==
  /\ [][\A j \in timers :
          ExpirationTimer(j) =>
            IF j \in jobs /\ jobObjects[j].status = "payment_required"
            THEN /\ jobObjects'[j].status = "expired"
                 /\ \A k \in DOMAIN jobObjects : k # j => jobObjects'[k] = jobObjects[k]
                 /\ sent' = <<[type |-> "X402_PAYMENT_EXPIRED", jobId |-> j,
                               orderId |-> jobObjects[j].orderId,
                               status |-> "expired"]>>
            ELSE /\ jobObjects' = jobObjects
                 /\ sent' = <<>>]_vars
  /\ [][\A k \in DOMAIN sent' :
          sent'[k].type = "X402_PAYMENT_EXPIRED"
            => /\ sent'[k].jobId \in timers
               /\ jobObjects[sent'[k].jobId].status = "payment_required"]_vars

\* the timer of a job nobody paid fired: the job is expired and the
\* notification says so
C25_Witness ==
  \E j \in jobs :
    /\ j \notin timers
    /\ jobObjects[j].status = "expired"
    /\ jobObjects[j].paymentMethod = "none"
    /\ jobObjects[j].age = TickMs
    /\ Len(sent) = 1
    /\ sent[1].type = "X402_PAYMENT_EXPIRED"
    /\ sent[1].jobId = j
    /\ sent[1].status = "expired"

\* the step in which the verify call of task i returns invalid
VerifyFails(i) ==
  /\ tasks[i].pc = "verify"
  /\ tasks'[i].pc # "verify"
  /\ ~jobObjects'[tasks[i].job].verifyResponse.isValid

\* the step in which the settle call of task i returns success = false
SettleFails(i) ==
  /\ tasks[i].pc = "settle"
  /\ tasks'[i].pc # "settle"
  /\ ~jobObjects'[tasks[i].job].settleResponse.success

\* after the step the job of task i is failed with the message `reason`,
\* and the step sent the X402_PAYMENT_FAILED notification of the job
FailedWith(i, reason) ==
  LET job == tasks[i].job IN
  /\ jobObjects'[job].status = "failed"
  /\ jobObjects'[job].errorMessage = reason
  /\ Len(sent') = 1
  /\ sent'[1].type = "X402_PAYMENT_FAILED"
  /\ sent'[1].jobId = job

\* a task calls settle only from the step that follows its verified
\* notification, and only with a valid verifyResponse on its job
SettleOnlyAfterValid ==
  \A i \in DOMAIN tasks : i \in DOMAIN tasks' =>
    /\ (tasks'[i].pc = "settle" /\ tasks[i].pc # "settle")
         => /\ tasks[i].pc = "verifiedSent"
            /\ jobObjects[tasks[i].job].verifyResponse.isValid
    /\ (tasks'[i].pc = "verifiedSent" /\ tasks[i].pc # "verifiedSent")
         => jobObjects'[tasks[i].job].verifyResponse.isValid

\* C27 as stated: in a verifyAndSettle task, when verify returns invalid
\* the job becomes failed with the reason of verify as errorMessage, the
\* failed notification is sent and the task does not call settle; when
\* settle returns success = false the job becomes failed with the reason of
\* settle and the failed notification is sent.
C27_FailureFailsJob ==
  [][/\ \A i \in DOMAIN tasks :
          /\ VerifyFails(i) =>
               FailedWith(i, jobObjects'[tasks[i].job].verifyResponse.invalidReason)
          /\ SettleFails(i) =>
               FailedWith(i, jobObjects'[tasks[i].job].settleResponse.errorReason)
     /\ SettleOnlyAfterValid]_vars

\* C27, amended: the same for a job that is still in the job table when
\* the call returns; for a job that was removed from the table in the
\* meantime the response is recorded on the job object and the failed
\* notification is sent, and the status and the errorMessage of the object
\* stay as they were.
C27_FailureFailsTabledJob ==
  [][/\ \A i \in DOMAIN tasks :
          LET job == tasks[i].job IN
          /\ VerifyFails(i) =>
               IF job \in jobs
               THEN FailedWith(i, jobObjects'[job].verifyResponse.invalidReason)
               ELSE /\ jobObjects'[job].status = jobObjects[job].status
                    /\ jobObjects'[job].errorMessage = jobObjects[job].errorMessage
                    /\ sent' = <<[type |-> "X402_PAYMENT_FAILED", jobId |-> job,
                                  orderId |-> jobObjects[job].orderId,
                                  status |-> jobObjects[job].status]>>
          /\ SettleFails(i) =>
               IF job \in jobs
               THEN FailedWith(i, jobObjects'[job].settleResponse.errorReason)
               ELSE /\ jobObjects'[job].status = jobObjects[job].status
                    /\ jobObjects'[job].errorMessage = jobObjects[job].errorMessage
                    /\ sent' = <<[type |-> "X402_PAYMENT_FAILED", jobId |-> job,
                                  orderId |-> jobObjects[job].orderId,
                                  status |-> jobObjects[job].status]>>
     /\ SettleOnlyAfterValid]_vars

\* the settle call of a task failed after a valid verification: the job is
\* failed with the reason of settle
C27_Witness ==
  \E i \in DOMAIN tasks :
    LET job == tasks[i].job IN
    /\ tasks[i].pc = "settleFailedSent"
    /\ job \in jobs
    /\ jobObjects[job].status = "failed"
    /\ jobObjects[job].verifyResponse.isValid
    /\ jobObjects[job].settleResponse.recorded
    /\ jobObjects[job].errorMessage = "Transaction submission failed"
    /\ sent = <<[type |-> "X402_PAYMENT_FAILED", jobId |-> job,
                 orderId |-> jobObjects[job].orderId, status |-> "failed"]>>

\* C28: the delivery of a notification changes no job and no result: the
\* step that follows a notification (the rest of createPaymentJob, of
\* verifyAndSettle) leaves the same job objects, job table, queue and
\* returned value whether the webhook call was skipped, delivered or
\* failed.
C28_DeliveryChangesNothing ==
  [][/\ \A j \in creating, cont \in Continuations, outcome \in DispatchOutcomes :
          CreateReturn(j, cont, outcome) <=> CreateReturn(j, cont, "delivered")
     /\ \A i \in DOMAIN tasks, outcome \in DispatchOutcomes :
          /\ VerifiedSent(i, outcome) <=> VerifiedSent(i, "delivered")
          /\ FailedSent(i, outcome) <=> FailedSent(i, "delivered")
          /\ SettledSent(i, outcome) <=> SettledSent(i, "delivered")
          /\ ConfirmedSent(i, outcome) <=> ConfirmedSent(i, "delivered")]_vars

\* the verified notification of a job ended (delivered or not) and its
\* task is in settle; the timer armed after the first notification waits
C28_Witness ==
  \E i \in DOMAIN tasks :
    /\ tasks[i].pc = "settle"
    /\ jobObjects[tasks[i].job].status = "settling"
    /\ tasks[i].job \in timers
    /\ sent = <<>>

\* C24: the options buildAccepts returns contain the crypto option for
\* every job of the table, whether or not the bank produced a QR option.
C24_CryptoAlwaysOffered ==
  \A j \in jobs, fiatAccept \in BOOLEAN :
    \E k \in DOMAIN BuildAccepts(j, fiatAccept) :
      BuildAccepts(j, fiatAccept)[k] = "crypto"

\* the checks of verify in the order of the specification, as the reasons
\* each one fails with and whether it passes for the call at hand, on the
\* exact amounts
VerifyChecks ==
  LET pp == call.paymentPayload
      rq == call.paymentRequirements
      tx == pp.payload.signedTxXdr
      p == FindPayment(tx.operations)
      op == tx.operations[p]
      balance == call.env.account.balance IN
  << [ok |-> pp.scheme # "undefined",
      reasons |-> {"Invalid payment payload type for crypto payment"}],
     [ok |-> call.env.isConfigured, reasons |-> {"Facilitator not configured"}],
     [ok |-> /\ pp.x402Version = X402Version
             /\ pp.network = "stellar-testnet"
             /\ pp.scheme = "exact",
      reasons |-> {"Unsupported x402 version", "Wrong network", "Unsupported scheme"}],
     [ok |-> tx.decodes /\ tx.source = pp.payload.sourceAccount,
      reasons |-> {"XDR read error", "Transaction source account mismatch"}],
     [ok |-> \E s \in DOMAIN tx.signatures :
               tx.signatures[s] = pp.payload.sourceAccount,
      reasons |-> {"Transaction has no signatures", "Invalid transaction signature"}],
     [ok |-> p # 0 /\ op.destination = rq.payTo,
      reasons |-> {"No payment operation found in transaction",
                   "Payment destination mismatch"}],
     [ok |-> p # 0 /\ ~BigLess(BigInt(op.amount.units, op.amount.frac),
                               rq.maxAmountRequired),
      reasons |-> {"Insufficient payment amount"}],
     [ok |-> p # 0 /\ op.asset = rq.asset,
      reasons |-> {"Expected native XLM payment", "Asset mismatch"}],
     [ok |-> /\ call.env.account.loads
             /\ ~BigLess(BigInt(balance.units, balance.frac), rq.maxAmountRequired),
      reasons |-> {"Failed to verify payer balance", "Insufficient balance"}] >>

\* C26: verify returns isValid = true exactly when no check fails, and
\* otherwise the invalidReason of the first check that fails.
C26_ValidIffAllChecksPass ==
  (call.op = "verify" /\ call.done) =>
    LET failing == {k \in DOMAIN VerifyChecks : ~VerifyChecks[k].ok} IN
    IF failing = {}
    THEN call.result.isValid
    ELSE /\ ~call.result.isValid
         /\ \E k \in failing :
              /\ \A other \in failing : k <= other
              /\ call.result.invalidReason \in VerifyChecks[k].reasons

\* the event of the notification that reports a job entering `status`
EventOf(status) ==
  CASE status = "payment_required" -> "X402_PAYMENT_REQUIRED"
    [] status = "payment_received" -> "X402_PAYMENT_RECEIVED"
    [] status = "verified" -> "X402_PAYMENT_VERIFIED"
    [] status = "settled" -> "X402_PAYMENT_SETTLED"
    [] status = "completed" -> "X402_PAYMENT_CONFIRMED"
    [] status = "failed" -> "X402_PAYMENT_FAILED"
    [] status = "expired" -> "X402_PAYMENT_EXPIRED"

\* the step hands the notification of `status` for job j to the webhook
Notified(j, status) ==
  \E k \in DOMAIN sent' :
    /\ sent'[k].type = EventOf(status)
    /\ sent'[k].jobId = j
    /\ sent'[k].status = status

\* C29: every step that creates a job, or changes the status of a job to
\* payment_received, verified, settled, failed or expired, or completes a
\* job by confirmation, calls the webhook with the event of the new status
\* for that job.
C29_EveryTransitionNotified ==
  [][/\ \A j \in DOMAIN jobObjects' \ DOMAIN jobObjects :
          Notified(j, "payment_required")
     /\ \A j \in DOMAIN jobObjects :
          /\ ( /\ jobObjects'[j].status # jobObjects[j].status
               /\ jobObjects'[j].status \in {"payment_received", "verified",
                                             "settled", "failed", "expired"} )
               => Notified(j, jobObjects'[j].status)
          /\ (jobObjects'[j].manuallyConfirmed /\ ~jobObjects[j].manuallyConfirmed)
               => Notified(j, "completed")]_vars

\* amountUsd * 10^7 truncated toward zero, as a BigInt of stroops
Truncated(usdAmount) ==
  BigInt(usdAmount.units, (usdAmount.steps * AtomicPerUsd) \div UsdStepsPerUnit)

\* C21: the requirements createPaymentJob issues for an amountUsd carry as
\* maxAmountRequired the amountAtomic of the job, which is amountUsd * 10^7
\* truncated toward zero and is a positive integer.
C21_AmountTruncated ==
  (call.op = "createPaymentJob" /\ call.done) =>
    LET amount == call.job.paymentRequirements.maxAmountRequired IN
    /\ amount = call.job.amountAtomic
    /\ amount = Truncated(call.amountUsd)
    /\ BigLess(BigInt(0, 0), amount)

\* C30 as stated: the verification of a proof is not serialized; an
\* accepted proof never waits for its verify call while the verify or the
\* settle call of another job is in progress.
C30_VerifyNotQueued ==
  \A i, k \in DOMAIN tasks :
    (tasks[i].pc = "waiting" /\ tasks[k].pc \in {"verify", "settle"})
      => tasks[k].jobId = tasks[i].jobId

\* C30, amended: the queue runs the verify call and the settle call of a
\* proof in one task; while the verify or the settle call of a proof is in
\* progress every other accepted proof waits, so no two verify calls, and
\* no verify call and settle call, are in progress at the same time.
C30_VerifySerialized ==
  \A i, k \in DOMAIN tasks :
    (i # k /\ tasks[i].pc \in {"verify", "settle"}) => tasks[k].pc = "waiting"

\* the proofs of two jobs were accepted: the verify call of the first is
\* in progress and the second job waits as payment_received
C30_Witness ==
  \E i, k \in DOMAIN tasks :
    /\ tasks[i].pc = "verify"
    /\ tasks[k].pc = "waiting"
    /\ tasks[i].jobId # tasks[k].jobId
    /\ jobObjects[tasks[i].jobId].status = "verifying"
    /\ jobObjects[tasks[k].jobId].status = "payment_received"

\* C31: the payload recorded on a job is set once: no step replaces the
\* paymentPayload of a job that has one.
C31_PayloadSetOnce ==
  [][\A j \in DOMAIN jobObjects :
       jobObjects[j].paymentPayload # 0
         => jobObjects'[j].paymentPayload = jobObjects[j].paymentPayload]_vars

\* C32: a verifyResponse or a settleResponse recorded on a job is never
\* replaced or changed by a later step.
C32_ResponsesKept ==
  [][\A j \in DOMAIN jobObjects :
       /\ jobObjects[j].verifyResponse.recorded
            => jobObjects'[j].verifyResponse = jobObjects[j].verifyResponse
       /\ jobObjects[j].settleResponse.recorded
            => jobObjects'[j].settleResponse = jobObjects[j].settleResponse]_vars

\* C33: processPayment on a job of the table whose status is settled or
\* completed, called before expiresAt, returns success with the status of
\* the job and the transaction and payer of its settleResponse, enqueues
\* no task and leaves every job as it was, whatever the header; the step of
\* such a call changes no job, no table and no task, so repeating it gives
\* the same.
C33_ProcessedIsCached ==
  /\ [](\A j \in jobs, h \in Headers :
         ( /\ jobObjects[j].status \in {"settled", "completed"}
           /\ jobObjects[j].age <= paymentTimeoutMs ) =>
           LET out == ProcessPaymentOutcome(j, h) IN
           /\ out.ret.success
           /\ out.ret.status = jobObjects[j].status
           /\ out.ret.txHash = jobObjects[j].settleResponse.transaction
           /\ out.ret.payer = jobObjects[j].settleResponse.payer
           /\ ~out.enqueue
           /\ out.objs = jobObjects)
  /\ [][\A j \in jobs, h \in Headers :
          ( /\ jobObjects[j].status \in {"settled", "completed"}
            /\ jobObjects[j].age <= paymentTimeoutMs
            /\ ProcessPayment(j, h) )
            => /\ UNCHANGED <<jobs, jobObjects, jobsByOrderId, timers>>
               /\ UNCHANGED queueVars]_vars

\* a job settled by its first proof, within its payment window, while a
\* second proof for it waits in the queue: a third proof is answered with
\* the transaction of the first
C33_Witness ==
  \E j \in jobs :
    /\ jobObjects[j].status = "settled"
    /\ jobObjects[j].age = 0
    /\ jobObjects[j].settleResponse.success
    /\ jobObjects[j].settleResponse.transaction = 1
    /\ \E i \in DOMAIN tasks : tasks[i].jobId = j /\ tasks[i].pc = "waiting"
    /\ ProcessPaymentOutcome(j, CryptoHeader(NextPayload)).ret
         = Result(TRUE, "settled", "none", jobObjects[j].settleResponse, TRUE)

\* C35: facilitator.settle is called at most once for a job: a task calls
\* settle only for a job that has no settleResponse yet.
C35_SettleOncePerJob ==
  [][\A i \in DOMAIN tasks :
       ( /\ i \in DOMAIN tasks'
         /\ tasks'[i].id = tasks[i].id
         /\ tasks[i].pc # "settle"
         /\ tasks'[i].pc = "settle" )
         => ~jobObjects[tasks[i].job].settleResponse.recorded]_vars

\* C38: processPayment returns success = true only for a job whose
\* settleResponse has success = true at the time of the return, whether it
\* returns at once or with the result of its verifyAndSettle task.
C38_SuccessOnlyWhenSettled ==
  /\ [](\A j \in jobs, h \in Headers :
         LET out == ProcessPaymentOutcome(j, h) IN
         (~out.enqueue /\ out.ret.success) => out.objs[j].settleResponse.success)
  /\ [][(ret'.op = "enqueue" /\ ret'.value.success)
          => jobObjects'[ret'.jobId].settleResponse.success]_vars

\* C36: getQueueDepth() is the number of tasks enqueued and not yet
\* finished (waiting or running), whether tasks return or throw; it is
\* never negative, and isIdle() holds exactly when no task waits or runs
C36_DepthCountsUnfinished ==
  /\ getQueueDepth = Len(tasks)
  /\ getQueueDepth = Cardinality({i \in DOMAIN tasks :
                                    tasks[i].pc \in {"waiting", "running"}})
  /\ getQueueDepth >= 0
  /\ isIdle <=> tasks = <<>>

\* a task has thrown and ended while another one is still enqueued
C36_Witness ==
  /\ ret.op = "enqueue"
  /\ ~ret.fulfilled
  /\ Len(tasks) = 1
  /\ getQueueDepth = 1
  /\ ~isIdle

\* the jobs ever created for orderId, and the one created last
JobsOfOrder(orderId) ==
  {j \in DOMAIN jobObjects : jobObjects[j].orderId = orderId}

MostRecentJob(orderId) ==
  CHOOSE j \in JobsOfOrder(orderId) : \A k \in JobsOfOrder(orderId) : k <= j

\* C37: while the most recently created job of an order is in the job
\* table, getJobByOrderId(orderId) returns it; the removal of an older
\* failed or expired job of the order does not make it unreachable
C37_NewestReachable ==
  \A orderId \in OrderIds :
    (JobsOfOrder(orderId) # {} /\ MostRecentJob(orderId) \in jobs)
      => getJobByOrderId(orderId) = MostRecentJob(orderId)

\* ============================= SorobanService: submitting a transaction
\* createGroup, depositFor, payout and sweepYield share one body: the
\* isConfigured test, the transaction built, simulated and signed inside
\* try, sendTransaction, and the wait for the ledger.  `call` is the
\* invocation: where it stands and how often it has asked getTransaction.
MaxPolls == 5         \* getTransaction calls counted; more are counted as MaxPolls

SorobanOps == {"createGroup", "depositFor", "payout", "sweepYield"}

SorobanResult(op, success, error) ==
  [op |-> op, success |-> success, error |-> error]

SorobanReturn(success, error) ==
  /\ call' = [call EXCEPT !.pc = "returned"]
  /\ ret' = SorobanResult(call.op, success, error)

PollInit ==
  /\ jobs = {} /\ jobObjects = <<>> /\ jobsByOrderId = <<>>
  /\ creating = {} /\ timers = {} /\ fiat = <<>> /\ ret = NoRet
  /\ tail = Resolved /\ queueDepth = 0 /\ enqueued = 0 /\ tasks = <<>>
  /\ sent = <<>>
  /\ call \in [op : SorobanOps, isConfigured : BOOLEAN, pc : {"called"},
               polls : {0}]

\* if (!this.isConfigured) return {success: false, ...}; otherwise the
\* transaction is built, simulated and signed, which may throw into catch
SorobanInvoke(built) ==
  /\ call.pc = "called"
  /\ IF ~call.isConfigured
     THEN SorobanReturn(FALSE, "Soroban service not configured")
     ELSE IF ~built
     THEN SorobanReturn(FALSE, "error.message")
     ELSE call' = [call EXCEPT !.pc = "submitting"] /\ ret' = NoRet
  /\ UNCHANGED <<jobs, jobObjects, jobsByOrderId, creating, timers, fiat, sent>>
  /\ UNCHANGED queueVars

\* sendResponse = await this.server.sendTransaction(preparedTx): only a
\* PENDING transaction is waited for
SendTransaction(status) ==
  /\ call.pc = "submitting"
  /\ IF status = "PENDING"
     THEN call' = [call EXCEPT !.pc = "polling"] /\ ret' = NoRet
     ELSE IF status = "throws"
     THEN SorobanReturn(FALSE, "error.message")
     ELSE SorobanReturn(FALSE, "Transaction failed")
  /\ UNCHANGED <<jobs, jobObjects, jobsByOrderId, creating, timers, fiat, sent>>
  /\ UNCHANGED queueVars

\* getResponse = await this.server.getTransaction(sendResponse.hash), before
\* and inside the loop: while the status is NOT_FOUND the loop goes on,
\* SUCCESS returns success, any other status returns 'Transaction failed'
GetTransaction(status) ==
  /\ call.pc = "polling"
  /\ LET asked == [call EXCEPT !.polls = IF @ < MaxPolls THEN @ + 1 ELSE @] IN
     IF status = "NOT_FOUND"
     THEN call' = [asked EXCEPT !.pc = "sleeping"] /\ ret' = NoRet
     ELSE /\ call' = [asked EXCEPT !.pc = "returned"]
          /\ ret' = IF status = "SUCCESS"
                    THEN SorobanResult(call.op, TRUE, "none")
                    ELSE IF status = "throws"
                    THEN SorobanResult(call.op, FALSE, "error.message")
                    ELSE SorobanResult(call.op, FALSE, "Transaction failed")
  /\ UNCHANGED <<jobs, jobObjects, jobsByOrderId, creating, timers, fiat, sent>>
  /\ UNCHANGED queueVars

\* await new Promise(resolve => setTimeout(resolve, 1000)): the loop asks
\* again after the delay, whatever the number of polls made
PollDelay ==
  /\ call.pc = "sleeping"
  /\ call' = [call EXCEPT !.pc = "polling"]
  /\ ret' = NoRet
  /\ UNCHANGED <<jobs, jobObjects, jobsByOrderId, creating, timers, fiat, sent>>
  /\ UNCHANGED queueVars

PollNext ==
  \/ \E built \in BOOLEAN : SorobanInvoke(built)
  \/ \E status \in {"PENDING", "ERROR", "throws"} : SendTransaction(status)
  \/ \E status \in {"NOT_FOUND", "SUCCESS", "FAILED", "throws"} :
       GetTransaction(status)
  \/ PollDelay

PollSpec == PollInit /\ [][PollNext]_vars

\* Every RPC call gets an answer and the timer of the delay fires: the
\* invocation takes its next step whenever it has one.
PollFairSpec == PollSpec /\ WF_vars(PollNext)

\* C34: the wait for a submitted transaction ends after a bounded number of
\* polls even when the ledger keeps answering NOT_FOUND, so an invocation
\* of createGroup, depositFor, payout or sweepYield always returns a result
C34_PollingEnds == <>(call.pc = "returned" /\ ret.op = call.op)

\* ================== IntegratedPaymentService and the group contract's ledger
\* `call` is the PasanakuGroup contract: for every deposit_for transaction
\* that succeeded, the payment job whose registration submitted it
MaxDeposits == 2      \* successful deposit_for transactions

RegInit ==
  /\ jobs = {} /\ jobObjects = <<>> /\ jobsByOrderId = <<>>
  /\ creating = {} /\ timers = {} /\ fiat = <<>> /\ ret = NoRet
  /\ tail = Resolved /\ queueDepth = 0 /\ enqueued = 0 /\ tasks = <<>>
  /\ sent = <<>>
  /\ call = [op |-> "PasanakuGroup", credited |-> <<>>]

\* const result = await this.sorobanService.depositFor(...): the contract
\* after registerPaymentOnChain(jobId) when the transaction it submits
\* succeeds (deposited) or not
DepositFor(jobId, deposited) ==
  IF RegisterPaymentOnChainOutcome(jobId).sent # <<>> /\ deposited
  THEN [call EXCEPT !.credited = Append(@, jobId)]
  ELSE call

\* registerPaymentOnChain(jobId, groupAddress, memberAddress) with the
\* result of depositFor, which it returns
RegisterPaymentOnChainReturn(jobId, deposited) ==
  /\ sent' = RegisterPaymentOnChainOutcome(jobId).sent
  /\ call' = DepositFor(jobId, deposited)
  /\ Len(call'.credited) <= MaxDeposits
  /\ ret' = IF sent' = <<>> THEN RegisterPaymentOnChainOutcome(jobId).ret
            ELSE RegisterResult(deposited, IF deposited THEN "none"
                                           ELSE "Transaction failed")
  /\ UNCHANGED <<jobs, jobObjects, jobsByOrderId, creating, timers, fiat>>
  /\ UNCHANGED queueVars

\* processAndRegisterPayment up to the return of processPayment: when
\* processPayment answers at once with success the payment is registered;
\* when it enqueued verifyAndSettle the call waits for the task
ProcessAndRegisterPayment(jobId, header, deposited) ==
  LET paymentResult == ProcessPaymentOutcome(jobId, header) IN
  /\ ProcessPaymentBody(jobId, header)
  /\ IF ~paymentResult.enqueue /\ paymentResult.ret.success
     THEN /\ sent' = RegisterPaymentOnChainOutcome(jobId).sent
          /\ call' = DepositFor(jobId, deposited)
     ELSE /\ sent' = <<>>
          /\ call' = call
  /\ Len(call'.credited) <= MaxDeposits
  /\ UNCHANGED <<jobs, jobsByOrderId, creating, timers, fiat>>

\* processAndRegisterPayment after the task of its processPayment call
\* ended: if (!paymentResult.success) return; otherwise the payment is
\* registered
RegisterAfterPayment(deposited) ==
  /\ ret.op = "enqueue"
  /\ ret.fulfilled
  /\ ret.value.success
  /\ RegisterPaymentOnChainReturn(ret.jobId, deposited)

RegNext ==
  \/ \E o \in CallableOrders, tm \in Terms :
       CreatePaymentJob(o, tm[1], tm[2], tm[3], [kind |-> "return", payload |-> 0])
         /\ Fits(MaxJobs, MaxTasks, 0)
  \/ \E j \in creating, outcome \in DispatchOutcomes :
       CreateReturn(j, [kind |-> "return", payload |-> 0], outcome)
  \/ \E j \in jobs : ProcessPayment(j, CryptoHeader(NextPayload))
                       /\ Fits(MaxJobs, MaxTasks, 0)
  \/ \E j \in jobs, deposited \in BOOLEAN :
       ProcessAndRegisterPayment(j, CryptoHeader(NextPayload), deposited)
         /\ Fits(MaxJobs, MaxTasks, 0)
  \/ \E j \in JobIds, deposited \in BOOLEAN :
       RegisterPaymentOnChainReturn(j, deposited)
  \/ \E deposited \in BOOLEAN : RegisterAfterPayment(deposited)
  \/ \E i \in DOMAIN tasks : TaskStart(i)
  \/ \E i \in DOMAIN tasks, isValid \in BOOLEAN : VerifyReturn(i, isValid)
  \/ \E i \in DOMAIN tasks, outcome \in DispatchOutcomes : VerifiedSent(i, outcome)
  \/ \E i \in DOMAIN tasks, success \in BOOLEAN : SettleReturn(i, success)
  \/ \E i \in DOMAIN tasks, outcome \in DispatchOutcomes : FailedSent(i, outcome)
  \/ \E i \in DOMAIN tasks, outcome \in DispatchOutcomes : SettledSent(i, outcome)
  \/ \E i \in DOMAIN tasks, outcome \in DispatchOutcomes : ConfirmedSent(i, outcome)

RegSpec == RegInit /\ [][RegNext]_vars

\* C39: for every payment job the contract's deposit_for succeeds at most
\* once over any number of registerPaymentOnChain and
\* processAndRegisterPayment calls
C39_CreditedOnce ==
  \A j \in DOMAIN jobObjects :
    Cardinality({k \in DOMAIN call.credited : call.credited[k] = j}) <= 1

\* ============================================ the queue's tasks under fairness
\* a step of some verifyAndSettle task: its start or the return of the
\* verify, settle or notification call it awaits
TaskStep ==
  \/ \E i \in DOMAIN tasks : TaskStart(i)
  \/ \E i \in DOMAIN tasks, isValid \in BOOLEAN : VerifyReturn(i, isValid)
  \/ \E i \in DOMAIN tasks, outcome \in DispatchOutcomes : VerifiedSent(i, outcome)
  \/ \E i \in DOMAIN tasks, success \in BOOLEAN : SettleReturn(i, success)
  \/ \E i \in DOMAIN tasks, outcome \in DispatchOutcomes : FailedSent(i, outcome)
  \/ \E i \in DOMAIN tasks, outcome \in DispatchOutcomes : SettledSent(i, outcome)
  \/ \E i \in DOMAIN tasks, outcome \in DispatchOutcomes : ConfirmedSent(i, outcome)

\* Every facilitator and notification call returns and the event loop runs
\* every ready callback: the task at the head of the queue takes its next
\* step.
PairFairSpec == PairSpec /\ WF_vars(TaskStep)

\* every processPayment call that enqueued a task gets the task's result
EveryCallAnswered ==
  \A t \in 1..MaxPairTasks :
    (t \in Pending) ~> (ret.op = "enqueue" /\ ret.task = t)

\* C40: when every verify, settle and notification call returns, every
\* processPayment call that enqueued a task eventually receives a result,
\* and when the task ends its job is failed, settled or completed, not
\* payment_received, verifying, verified or settling
C40_TaskEndsJobDecided ==
  /\ \A t \in 1..MaxPairTasks :
       (t \in Pending) ~> (ret.op = "enqueue" /\ ret.task = t)
  /\ [][(ret'.op = "enqueue" /\ ret'.jobId \in jobs')
          => jobObjects'[ret'.jobId].status
               \in {"failed", "settled", "completed"}]_vars
====
